---- MODULE Spec2Model ----
(***************************************************************************)
(* A model of the RocketSpeed subscription engine: the client-side         *)
(* TopicToSubscriptionMap, the server-side CommunicationRocketeer, the     *)
(* control tower's LogTailer, and the client Subscriber layers.            *)
(* Every component has its own next-state relation and specification over  *)
(* the shared variables; a component's actions leave the others unchanged. *)
(***************************************************************************)
EXTENDS Integers, Sequences, FiniteSets, TLC

(***************************************************************************)
(* Bounds of the model.                                                    *)
(***************************************************************************)
\* Subscription IDs 1..MaxSubId may be inserted into the topic map.
MaxSubId == 10
\* Sequence numbers handed to the Rocketeer are 0..MaxSeqno.
MaxSeqno == 2
\* The Rocketeer's traces of application calls and sent messages hold at most
\* this many entries in all.
MaxEvents == 4
\* The dropped_reordered counter is followed up to this value.
MaxDropped == 1
\* The client's subscriptions start at, and the server delivers, seqnos
\* 0..MaxClientSeqno.
MaxClientSeqno == 2
\* The goodbyes the client's server stream receives are followed up to this
\* number.
MaxGoodbyes == 2
\* The records delivered on one upstream subscription of the tail-collapsing
\* subscriber are followed up to this number.
MaxRecords == 2
\* The storage hands the LogTailer records and gaps with seqnos 1..MaxLogSeqno.
MaxLogSeqno == 2
\* options_.storage_to_room_queue_size: the commands the queue from the
\* storage threads to the tailer's loop can hold.
QueueSize == 2
\* The lists of a serialised message (cursors, acks, batched messages, shards)
\* hold at most this many entries.
MaxListLen == 2
\* The commands the queue of one worker's loop can hold.
CommandQueueSize == 1

\* The counts for which the arithmetic of Rehash is checked on its own.
MaxRehashCount == 48
\* The records and gaps an in-order storage holds for its log.
MaxLogItems == 3
\* The callbacks of the in-order storage that returned false are counted up
\* to this number.
MaxRetries == 2
\* The seqno at which the log of the in-order storage was opened.
LogStart == 1
\* The ping requests the applications of the two loops send.
MaxPings == 2

(***************************************************************************)
(* Program constants.                                                      *)
(***************************************************************************)
\* topic_subscription_map.cc:17
kReservedSubscriptionID == 0
\* topic_subscription_map.cc:175
kMinSize == 16

VARIABLES
  \* ---- TopicToSubscriptionMap (src/client/topic_subscription_map.h) ----
  vector_,          \* std::vector<SubscriptionID>; slot p is vector_[p + 1]
  sub_count_low_,
  sub_count_high_,
  sub_count_,
  digest,           \* the XXH64 digest of every (namespace, topic)
  map_fault,        \* the process died in the map (failed assertion, x % 0)
  ref_map,          \* reference: (namespace, topic) -> sub_id last inserted
  ref_ids,          \* reference: the IDs inserted and not removed since
  key_unique,       \* no Insert so far met another ID stored under its key
  map_last,         \* the last map operation and how it ended
  moved_past_kept,  \* the last Remove moved an entry after leaving one
  rebuilt,          \* the last map operation rebuilt the table in Rehash
  \* ---- CommunicationRocketeer (src/engine/rocketeer_server.cc) ----
  inbound_subscriptions_,  \* StreamID -> (SubscriptionID -> InboundSubscription)
  dropped_reordered,       \* stats_->dropped_reordered
  duplicates_ignored,      \* "Duplicated subscription" has been logged
  rk_trace,         \* per (stream, sub_id), in order and since the Subscribe
                    \* that was last accepted for it: the calls into the
                    \* application and the messages handed to SendResponse
  \* ---- LogTailer (src/controltower/log_tailer.cc) ----
  log_state,        \* per reader: LogID -> next expected seqno, for open logs
  storage_queue,    \* storage_to_room_queues_, the queue of one storage
                    \* thread: the commands the loop has not run yet
  lt_start,         \* per (reader, log): the start of the StartReading that
                    \* opened the log, 0 while it is not open
  lt_forwarded,     \* per (reader, log), in order and since the last
                    \* StartReading or StopReading: the records and gaps
                    \* passed to the user's on_record / on_gap
  script_pos,       \* per log: the records a scripted storage has forwarded
  lt_stopped,       \* observed, per (reader, log): StopReading closed the
                    \* log and no StartReading has opened it since
  lt_last,          \* observed: the last step of the tailer and how it ended
  lt_origin,        \* observed, per command of storage_queue: whether it is
                    \* for a record that failed to deserialize
  \* ---- Subscriber (src/client/subscriber.h) ----
  subscriptions_,          \* SubscriptionID -> SubscriptionState
  last_acks_map_,          \* SubscriptionID -> last acknowledged seqno
  pending_subscriptions_,  \* the IDs not yet processed
  server_stream_,          \* whether the stream to the server is open
  backoff_ticks,           \* backoff_until_time_: the ticks until a reopen
  goodbyes_seen,           \* the goodbyes received so far
  recent_terminations_,    \* SubscriptionID -> ticks since it was added
  sub_start,        \* per ID ever started: the start_seqno of its parameters
  sub_emitted,      \* per ID, in order: the messages handed to its Observer
  sent_subscribe,   \* per ID: the start seqno of the Subscribe last written
                    \* for it on the current server stream
  unsub_ages,       \* per ID: the ticks since each Unsubscribe that
                    \* ReceiveDeliver wrote within the last dedup window
  deduplicated,     \* the IDs for which ReceiveDeliver held an Unsubscribe
                    \* back within the last dedup window
  \* ---- TailCollapsingSubscriber (src/client/subscriber.h) ----
  \* upstream_subscriptions_ is the TopicToSubscriptionMap above
  tc_upstream,             \* the subscriptions of the underlying subscriber:
                           \* ID -> start seqno, the downstream IDs its
                           \* observer serves, the records delivered on it
  downstream_to_upstream_, \* collapsed downstream ID -> upstream ID
  tc_downstream,    \* per downstream subscription: its start seqno, the
                    \* records its upstream had delivered when it started,
                    \* and the records its observer received, in order
  tc_used,          \* the IDs StartSubscription was called with
  \* ---- Message codec (src/messages/messages.cc) ----
  codec_pc,         \* "idle", "serialized" or "deserialized"
  codec_msg,        \* the message that was serialised
  codec_serial,     \* its serialisation
  codec_out,        \* the message CreateNewInstance built from the bytes
  \* ---- TopicManager and ControlRoom (src/controltower) ----
  topic_map_,       \* topic -> TopicList, the subscriptions in order
  host_map,         \* the HostMap: the HostIds in the order of their numbers
  last_read,        \* log -> the seqno SetLastRead was last given
  room_sent,        \* the Sends of the room's last command, in order
  room_last,        \* the message of the room's last command
  tm_last,          \* the last call of the TopicManager and what it returned
  \* ---- RocketeerServer (src/engine/rocketeer_server.cc) ----
  rocketeers_,      \* worker -> the subscription of its CommunicationRocketeer
  rs_queue,         \* worker -> the commands sent to its loop, not yet run
  rs_last,          \* the last step of the server: the thread that took it,
                    \* what it returned and whether a message was sent
  next_sub_id_,          \* MultiThreadedSubscriber: the next subscription ID seed
  subscriber_queues_,    \* worker |-> commands queued to the worker's subscriber
  mt_subs,               \* worker |-> handles of the subscriptions it holds
  mt_acked,              \* worker |-> handles it has acknowledged a message of
  mt_calls,              \* thread |-> the Subscribe call it is in the middle of
  mt_returned,           \* the valid handles returned, each with its worker
  mt_last,               \* the public call or command that ran last
  socket_event_,         \* Stream: stream |-> whether it exists and is open
  send_queue_,           \* SocketEvent: the messages written to the socket
  st_delivered,          \* stream |-> the messages its receiver was given
  closing_,              \* SocketEvent: closing or closed
  st_faulted,            \* the process dereferenced a null pointer and died
  st_last,               \* the call on a stream or on the socket that ran last
  sz_log,                \* seqno-zero scenario: the records appended to the log
  sz_publishing,         \* the client waits for the ack of a publish
  sz_sub,                \* how far the subscription with start seqno 0 has got
  sz_next,               \* the tailer's next expected seqno of the log
  sz_prev,               \* the server's prev_seqno of the subscription
  sz_received,           \* the seqnos the observer received, in order
  sz_before,             \* the records published when the client was confirmed
  sz_queue,              \* the records forwarded to the room and not yet run
  \* ---- A storage that delivers one log in order and redelivers ----
  io_log,                \* the records and gaps the storage holds for the log
  io_pos,                \* how many of them its callbacks have accepted
  io_retries,            \* callbacks that returned false, up to MaxRetries
  \* ---- A stream with its owner (src/messages/stream.cc) ----
  receiver_,             \* Stream: stream |-> whether a receiver is set
  is_inbound_,           \* SocketEvent::IsInbound() of the streams' socket
  dw_pc,                \* where the receiver of a MessageDeliver stands
  dw_in,                \* the bytes of the MessageDeliver on the wire
  dw_out,               \* what MessageDeliver::DeSerialize made of them
  msg_callbacks_,       \* loop |-> whether Run has installed ProcessPing
  ping_commands,        \* loop |-> the send commands its event loop holds
  ping_wire,            \* loop |-> the messages on their way to it
  ping_issued,          \* ghost: the ping requests the applications sent
  ping_responses,       \* ghost: the responses ProcessPing has sent
  ping_last             \* ghost: the last step of a loop

mapVars == <<vector_, sub_count_low_, sub_count_high_, sub_count_, digest,
             map_fault, ref_map, ref_ids, key_unique, map_last,
             moved_past_kept, rebuilt>>

rkVars ==
  <<inbound_subscriptions_, dropped_reordered, duplicates_ignored, rk_trace>>

ltVars ==
  <<log_state, storage_queue, lt_start, lt_forwarded, script_pos, lt_stopped,
    lt_last, lt_origin>>

subVars == <<subscriptions_, last_acks_map_, pending_subscriptions_,
             server_stream_, backoff_ticks, goodbyes_seen,
             recent_terminations_, sub_start, sub_emitted, sent_subscribe,
             unsub_ages, deduplicated>>

tcVars == <<tc_upstream, downstream_to_upstream_, tc_downstream, tc_used>>

codecVars == <<codec_pc, codec_msg, codec_serial, codec_out>>

roomVars == <<topic_map_, host_map, last_read, room_sent, room_last, tm_last>>

rsVars == <<rocketeers_, rs_queue, rs_last>>

mtVars == <<next_sub_id_, subscriber_queues_, mt_subs, mt_acked, mt_calls, mt_returned, mt_last>>

streamVars == <<socket_event_, send_queue_, st_delivered, closing_, st_faulted, st_last>>

szVars ==
  <<sz_log, sz_publishing, sz_sub, sz_next, sz_prev, sz_received, sz_before,
    sz_queue>>

ioVars == <<io_log, io_pos, io_retries>>

ownerVars == <<receiver_, is_inbound_>>

dwVars == <<dw_pc, dw_in, dw_out>>

pingVars == <<msg_callbacks_, ping_commands, ping_wire, ping_issued, ping_responses, ping_last>>

vars ==
  <<mapVars, rkVars, ltVars, subVars, tcVars, codecVars, roomVars, rsVars,
    mtVars, streamVars, szVars, ioVars, ownerVars, dwVars, pingVars>>

\* Each component's operations leave the other components' state alone.
MapFrame ==
  UNCHANGED
    <<rkVars, ltVars, subVars, tcVars, codecVars, roomVars, rsVars, mtVars,
      streamVars, szVars, ioVars, ownerVars, dwVars, pingVars>>
RocketeerFrame ==
  UNCHANGED
    <<mapVars, ltVars, subVars, tcVars, codecVars, roomVars, rsVars, mtVars,
      streamVars, szVars, ioVars, ownerVars, dwVars, pingVars>>
LogTailerFrame ==
  UNCHANGED
    <<mapVars, rkVars, subVars, tcVars, codecVars, roomVars, rsVars, mtVars,
      streamVars, szVars, ioVars, ownerVars, dwVars, pingVars>>
SubscriberFrame ==
  UNCHANGED
    <<mapVars, rkVars, ltVars, tcVars, codecVars, roomVars, rsVars, mtVars,
      streamVars, szVars, ioVars, ownerVars, dwVars, pingVars>>
TailCollapsingFrame ==
  UNCHANGED
    <<rkVars, ltVars, subVars, codecVars, roomVars, rsVars, mtVars,
      streamVars, szVars, ioVars, ownerVars, dwVars, pingVars>>
CodecFrame ==
  UNCHANGED
    <<mapVars, rkVars, ltVars, subVars, tcVars, roomVars, rsVars, mtVars,
      streamVars, szVars, ioVars, ownerVars, dwVars, pingVars>>
RoomFrame ==
  UNCHANGED
    <<mapVars, rkVars, ltVars, subVars, tcVars, codecVars, rsVars, mtVars,
      streamVars, szVars, ioVars, ownerVars, dwVars, pingVars>>
RocketeerServerFrame ==
  UNCHANGED
    <<mapVars, rkVars, ltVars, subVars, tcVars, codecVars, roomVars, mtVars,
      streamVars, szVars, ioVars, ownerVars, dwVars, pingVars>>
MultiThreadedFrame ==
  UNCHANGED
    <<mapVars, rkVars, ltVars, subVars, tcVars, codecVars, roomVars, rsVars,
      streamVars, szVars, ioVars, ownerVars, dwVars, pingVars>>
StreamFrame ==
  UNCHANGED
    <<mapVars, rkVars, ltVars, subVars, tcVars, codecVars, roomVars, rsVars,
      mtVars, szVars, ioVars, ownerVars, dwVars, pingVars>>
SeqnoZeroFrame ==
  UNCHANGED
    <<mapVars, rkVars, ltVars, subVars, tcVars, codecVars, roomVars, rsVars,
      mtVars, streamVars, ioVars, ownerVars, dwVars, pingVars>>
InOrderFrame ==
  UNCHANGED
    <<mapVars, rkVars, ltVars, subVars, tcVars, codecVars, roomVars, rsVars,
      mtVars, streamVars, szVars, ownerVars, dwVars, pingVars>>
RedeliveryFrame ==
  UNCHANGED
    <<mapVars, rkVars, subVars, tcVars, codecVars, roomVars, rsVars, mtVars,
      streamVars, szVars, ownerVars, dwVars, pingVars>>
StreamOwnerFrame ==
  UNCHANGED
    <<mapVars, rkVars, ltVars, subVars, tcVars, codecVars, roomVars, rsVars,
      mtVars, streamVars, szVars, ioVars, dwVars, pingVars>>
OwnedStreamsFrame ==
  UNCHANGED
    <<mapVars, rkVars, ltVars, subVars, tcVars, codecVars, roomVars, rsVars,
      mtVars, szVars, ioVars, dwVars, pingVars>>
DeliverWireFrame ==
  UNCHANGED
    <<mapVars, rkVars, ltVars, subVars, tcVars, codecVars, roomVars, rsVars,
      mtVars, streamVars, szVars, ioVars, ownerVars, pingVars>>
PingFrame ==
  UNCHANGED
    <<mapVars, rkVars, ltVars, subVars, tcVars, codecVars, roomVars, rsVars,
      mtVars, streamVars, szVars, ioVars, ownerVars, dwVars>>

(***************************************************************************)
(* TopicToSubscriptionMap                                                  *)
(***************************************************************************)
SubIds == 1..MaxSubId

\* The subscription state the map recovers a key from: IDs 1 and 2 share one
\* (namespace, topic), ID 3 has the same topic in another namespace, every
\* later ID has a topic of its own.
NamespaceOf(sub_id) == IF sub_id = 3 THEN 1 ELSE 0
TopicOf(sub_id) == IF sub_id <= 3 THEN 1 ELSE sub_id - 2

get_state_(sub_id) ==
  [namespace_id |-> NamespaceOf(sub_id), topic_name |-> TopicOf(sub_id)]

Keys == {get_state_(sub_id) : sub_id \in SubIds}

NullState == [namespace_id |-> -1, topic_name |-> -1]

\* Two digest functions the hash may be: both give clusters of colliding and
\* of adjacent optimal positions, one of them across the end of the vector.
DigestA == [k \in Keys |-> 5 * k.topic_name + 10 * k.namespace_id + 10]
DigestB == [k \in Keys |-> 3 * k.topic_name + k.namespace_id + 12]
Digests == {DigestA, DigestB}

\* The map's fields as one value, for the methods that compute a new map.
ThisMap ==
  [vector_ |-> vector_, sub_count_low_ |-> sub_count_low_,
   sub_count_high_ |-> sub_count_high_, sub_count_ |-> sub_count_]

FindOptimalPosition(vec, key) == digest[key] % Len(vec)

\* Mutant: the namespace is not compared.
StateMatches_TopicOnly(sub_id, key) ==
  get_state_(sub_id).topic_name = key.topic_name

StateMatches(sub_id, key) ==
  /\ get_state_(sub_id).topic_name = key.topic_name
  /\ get_state_(sub_id).namespace_id = key.namespace_id

RECURSIVE FindScan(_, _, _, _)
FindScan(vec, key, position, optimal_position) ==
  LET sub_id == vec[position + 1]
      next == (position + 1) % Len(vec)
  IN  IF sub_id = kReservedSubscriptionID
        THEN [sub_id |-> kReservedSubscriptionID, state |-> NullState]
      ELSE IF StateMatches(sub_id, key)
        THEN [sub_id |-> sub_id, state |-> get_state_(sub_id)]
      ELSE IF next = optimal_position
        THEN [sub_id |-> kReservedSubscriptionID, state |-> NullState]
      ELSE FindScan(vec, key, next, optimal_position)

\* Mutant: the scan begins at slot 0 instead of the key's optimal position.
Find_FromSlotZero(key) ==
  IF vector_ = <<>>
    THEN [sub_id |-> 0, state |-> NullState]
    ELSE FindScan(vector_, key, 0, 0)

Find(key) ==
  IF vector_ = <<>>
    THEN [sub_id |-> 0, state |-> NullState]
    ELSE FindScan(vector_, key, FindOptimalPosition(vector_, key),
                  FindOptimalPosition(vector_, key))

\* Mutant: the low watermark is not tested.
NeedsRehash_HighOnly(m) == m.sub_count_ >= m.sub_count_high_

NeedsRehash(m) ==
  m.sub_count_low_ > m.sub_count_ \/ m.sub_count_ >= m.sub_count_high_

\* Mutant: the probe does not look for the ID, it takes the first empty slot.
RECURSIVE InsertScan_NoDuplicateCheck(_, _, _, _)
InsertScan_NoDuplicateCheck(vec, sub_id, position, optimal_position) ==
  LET next == (position + 1) % Len(vec)
  IN  IF vec[position + 1] = kReservedSubscriptionID
        THEN [vec |-> [vec EXCEPT ![position + 1] = sub_id], added |-> 1]
      ELSE IF next = optimal_position
        THEN [vec |-> vec, added |-> 0]
      ELSE InsertScan_NoDuplicateCheck(vec, sub_id, next, optimal_position)

\* The probe of InsertInternal: the vector after it and whether an entry was
\* added (a duplicate or a full circle adds nothing).
RECURSIVE InsertScan(_, _, _, _)
InsertScan(vec, sub_id, position, optimal_position) ==
  LET next == (position + 1) % Len(vec)
  IN  IF vec[position + 1] = sub_id
        THEN [vec |-> vec, added |-> 0]
      ELSE IF vec[position + 1] = kReservedSubscriptionID
        THEN [vec |-> [vec EXCEPT ![position + 1] = sub_id], added |-> 1]
      ELSE IF next = optimal_position
        THEN [vec |-> vec, added |-> 0]
      ELSE InsertScan(vec, sub_id, next, optimal_position)

InsertInternal(m, key, sub_id) ==
  LET optimal_position == FindOptimalPosition(m.vector_, key)
      r == InsertScan(m.vector_, sub_id, optimal_position, optimal_position)
  IN  [m EXCEPT !.vector_ = r.vec, !.sub_count_ = m.sub_count_ + r.added]

RECURSIVE Reinsert(_, _, _)
Reinsert(m, old_vector, i) ==
  IF i > Len(old_vector) THEN m
  ELSE IF old_vector[i] # kReservedSubscriptionID
    THEN Reinsert(InsertInternal(m, get_state_(old_vector[i]), old_vector[i]),
                  old_vector, i + 1)
  ELSE Reinsert(m, old_vector, i + 1)

\* Mutant: the new size aims at the high load factor instead of the optimum.
RehashedSize_AtHighLoad(count) == count * 2

\* (size_t)((double)sub_count_ / 0.375), (size_t)(new_size * 0.25) and
\* (size_t)(new_size * 0.5): the doubles are exact for these magnitudes.
RehashedSize(count) == (count * 8) \div 3
LowOf(new_size) == new_size \div 4
HighOf(new_size) == new_size \div 2

Rehash(m) ==
  IF ~NeedsRehash(m) THEN m
  ELSE
    LET size0 == RehashedSize(m.sub_count_)
        new_size == IF size0 <= kMinSize THEN kMinSize ELSE size0
        low == IF size0 <= kMinSize THEN 0 ELSE LowOf(size0)
        cleared == [vector_ |-> [i \in 1..new_size |-> kReservedSubscriptionID],
                    sub_count_low_ |-> low,
                    sub_count_high_ |-> HighOf(new_size),
                    sub_count_ |-> 0]
    IN  Reinsert(cleared, m.vector_, 1)

\* Remove's search: the position its first loop stops at.
RECURSIVE RemoveScan(_, _, _, _)
RemoveScan(vec, sub_id, position, optimal_position) ==
  LET next == (position + 1) % Len(vec)
  IN  IF vec[position + 1] = kReservedSubscriptionID \/ vec[position + 1] = sub_id
        THEN position
      ELSE IF next = optimal_position THEN next
      ELSE RemoveScan(vec, sub_id, next, optimal_position)

\* Mutant: the wrapped range is tested like the regular one.
InShiftRange_NoWrap(position, x, current_position) ==
  position < x /\ x <= current_position

\* x lies in the range (position, current_position], regular or wrapped.
InShiftRange(position, x, current_position) ==
  IF position <= current_position
    THEN position < x /\ x <= current_position
    ELSE position < x \/ x <= current_position

\* One turn of Remove's second loop: the gap, the slot looked at, the optimal
\* position of the entry there, and what was done.
ShiftStep(position, current_position, x, decision) ==
  [position |-> position, current_position |-> current_position, x |-> x,
   decision |-> decision]

\* The outcome of the loop once the turn has been followed by the rest.
WalkAfter(step, rest) ==
  [vector_ |-> rest.vector_, walk |-> <<step>> \o rest.walk]

\* Mutant: the loop ends at the first entry it leaves in place.
RECURSIVE BackwardShift_StopAtKept(_, _, _)
BackwardShift_StopAtKept(vec, position, current_position) ==
  LET vec1 == [vec EXCEPT ![position + 1] = kReservedSubscriptionID]
      cur == (current_position + 1) % Len(vec)
      current_id == vec1[cur + 1]
      x == FindOptimalPosition(vec, get_state_(current_id))
  IN  IF current_id = kReservedSubscriptionID
        THEN [vector_ |-> vec1,
              walk |-> <<ShiftStep(position, cur, 0, "break")>>]
      ELSE IF InShiftRange(position, x, cur)
        THEN [vector_ |-> vec1,
              walk |-> <<ShiftStep(position, cur, x, "continue")>>]
      ELSE WalkAfter(ShiftStep(position, cur, x, "move"),
                     BackwardShift_StopAtKept(
                       [vec1 EXCEPT ![position + 1] = current_id], cur, cur))

\* Remove's second loop: backward shift from the freed position.  The result
\* is the vector and the turns of the loop: "break" at an empty slot,
\* "continue" past an entry left in place, "move" of an entry into the gap.
RECURSIVE BackwardShift(_, _, _)
BackwardShift(vec, position, current_position) ==
  LET vec1 == [vec EXCEPT ![position + 1] = kReservedSubscriptionID]
      cur == (current_position + 1) % Len(vec)
      current_id == vec1[cur + 1]
      x == FindOptimalPosition(vec, get_state_(current_id))
  IN  IF current_id = kReservedSubscriptionID
        THEN [vector_ |-> vec1,
              walk |-> <<ShiftStep(position, cur, 0, "break")>>]
      ELSE IF InShiftRange(position, x, cur)
        THEN WalkAfter(ShiftStep(position, cur, x, "continue"),
                       BackwardShift(vec1, position, cur))
      ELSE WalkAfter(ShiftStep(position, cur, x, "move"),
                     BackwardShift(
                       [vec1 EXCEPT ![position + 1] = current_id], cur, cur))

\* The loop went on after an entry it left in place and moved a later one.
MovedPastKept(walk) ==
  \E j, k \in DOMAIN walk :
    j < k /\ walk[j].decision = "continue" /\ walk[k].decision = "move"

\* Remove on a non-empty vector: the new map and the returned bool.
RemoveResult(m, key, sub_id) ==
  LET optimal_position == FindOptimalPosition(m.vector_, key)
      position == RemoveScan(m.vector_, sub_id, optimal_position,
                             optimal_position)
  IN  IF sub_id # m.vector_[position + 1]
        THEN [map |-> m, found |-> FALSE, walk |-> <<>>]
        ELSE [map |-> Rehash([m EXCEPT
                                !.sub_count_ = m.sub_count_ - 1,
                                !.vector_ =
                                  BackwardShift(m.vector_, position,
                                                position).vector_]),
              found |-> TRUE,
              walk |-> BackwardShift(m.vector_, position, position).walk]

InsertResult(m, key, sub_id) == InsertInternal(Rehash(m), key, sub_id)

StoredIds == {vector_[i] : i \in 1..Len(vector_)} \ {kReservedSubscriptionID}

\* The IDs of a set whose state carries the given namespace and topic.
IdsUnder(ids, key) == {sub_id \in ids : get_state_(sub_id) = key}

SetMap(m) ==
  /\ vector_' = m.vector_
  /\ sub_count_low_' = m.sub_count_low_
  /\ sub_count_high_' = m.sub_count_high_
  /\ sub_count_' = m.sub_count_

InitMap ==
  /\ vector_ = <<>>
  /\ sub_count_low_ = 0
  /\ sub_count_high_ = 0
  /\ sub_count_ = 0
  /\ digest \in Digests
  /\ map_fault = FALSE
  /\ ref_map = [k \in Keys |-> kReservedSubscriptionID]
  /\ ref_ids = {}
  /\ key_unique = TRUE
  /\ map_last = "none"
  /\ moved_past_kept = FALSE
  /\ rebuilt = FALSE

\* Insert(namespace, topic, sub_id) within the contract: the ID is not 0, it
\* is not stored yet, and its state carries the given namespace and topic.
Insert(sub_id) ==
  /\ ~map_fault
  /\ sub_id \notin StoredIds
  /\ SetMap(InsertResult(ThisMap, get_state_(sub_id), sub_id))
  /\ ref_map' = [ref_map EXCEPT ![get_state_(sub_id)] = sub_id]
  /\ ref_ids' = ref_ids \cup {sub_id}
  /\ key_unique' = (key_unique /\ IdsUnder(ref_ids, get_state_(sub_id)) = {})
  /\ map_last' = "insert"
  /\ moved_past_kept' = FALSE
  /\ rebuilt' = NeedsRehash(ThisMap)
  /\ UNCHANGED <<digest, map_fault>>

\* Insert(namespace, topic, sub_id) of an ID that is stored under this
\* namespace and topic, in a build without assertions: Rehash runs first, then
\* InsertInternal.  The caller's books do not change.
InsertDuplicate(sub_id) ==
  /\ ~map_fault
  /\ sub_id \in StoredIds
  /\ SetMap(InsertResult(ThisMap, get_state_(sub_id), sub_id))
  /\ map_last' = "insert_duplicate"
  /\ moved_past_kept' = FALSE
  /\ rebuilt' = NeedsRehash(ThisMap)
  /\ UNCHANGED <<digest, map_fault, ref_map, ref_ids, key_unique>>

\* Remove(namespace, topic, sub_id) on a map that has a vector.
Remove(sub_id) ==
  /\ ~map_fault
  /\ vector_ # <<>>
  /\ LET r == RemoveResult(ThisMap, get_state_(sub_id), sub_id)
     IN  /\ SetMap(r.map)
         /\ ref_map' = IF r.found /\ ref_map[get_state_(sub_id)] = sub_id
                         THEN [ref_map EXCEPT ![get_state_(sub_id)] =
                                 kReservedSubscriptionID]
                         ELSE ref_map
         /\ map_last' = IF r.found THEN "remove_hit" ELSE "remove_miss"
         /\ moved_past_kept' = MovedPastKept(r.walk)
         /\ rebuilt' = (r.found /\ NeedsRehash([ThisMap EXCEPT
                                                  !.sub_count_ = @ - 1]))
  /\ ref_ids' = ref_ids \ {sub_id}
  /\ UNCHANGED <<digest, map_fault, key_unique>>

\* Remove before the first Insert: FindOptimalPosition runs on an empty
\* vector (RS_ASSERT(!vector_.empty()), then hash % 0, then vector_[position]
\* of a vector without elements).  The behaviour is undefined: the process
\* dies (fault), or the garbage read differs from sub_id and false is
\* returned with the map as it was.
RemoveOnEmpty(sub_id, fault) ==
  /\ ~map_fault
  /\ vector_ = <<>>
  /\ map_fault' = fault
  /\ map_last' = IF fault THEN map_last ELSE "remove_miss"
  /\ moved_past_kept' = IF fault THEN moved_past_kept ELSE FALSE
  /\ rebuilt' = IF fault THEN rebuilt ELSE FALSE
  /\ UNCHANGED <<vector_, sub_count_low_, sub_count_high_, sub_count_, digest,
                 ref_map, ref_ids, key_unique>>

NextMap ==
  \/ \E sub_id \in SubIds : Insert(sub_id) /\ MapFrame
  \/ \E sub_id \in SubIds : Remove(sub_id) /\ MapFrame
  \/ \E sub_id \in SubIds, fault \in BOOLEAN :
       RemoveOnEmpty(sub_id, fault) /\ MapFrame

\* The map in a build without assertions, with callers that break the
\* contract of Insert.
NextMapDuplicates ==
  \/ NextMap
  \/ \E sub_id \in SubIds : InsertDuplicate(sub_id) /\ MapFrame

(***************************************************************************)
(* CommunicationRocketeer                                                  *)
(***************************************************************************)
StreamIDs == {1, 2}
TenantIDs == {101, 102}
Seqnos == 0..MaxSeqno
Reasons == {"kRequested", "kInvalid"}

InboundSubscription(tenant_id, prev_seqno) ==
  [tenant_id |-> tenant_id, prev_seqno |-> prev_seqno]

\* One entry of the trace: a call into the application above, or a message
\* handed to msg_loop_->SendResponse.
Event(ev, stream_id, sub_id, tenant_id, prev_seqno, seqno, info) ==
  [ev |-> ev, stream_id |-> stream_id, sub_id |-> sub_id,
   tenant_id |-> tenant_id, prev_seqno |-> prev_seqno, seqno |-> seqno,
   info |-> info]

HasInbound(stream_id, sub_id) ==
  /\ stream_id \in DOMAIN inbound_subscriptions_
  /\ sub_id \in DOMAIN inbound_subscriptions_[stream_id]

\* CommunicationRocketeer::Find: the subscription, where there is one.
FindInbound(stream_id, sub_id) == inbound_subscriptions_[stream_id][sub_id]

\* A map without one of its keys, and a map with one entry set.
MapErase(f, k) == [x \in DOMAIN f \ {k} |-> f[x]]
MapPut(f, k, v) == [x \in DOMAIN f \cup {k} |-> IF x = k THEN v ELSE f[x]]

\* Mutant: an equal seqno passes the test.
SeqnoAdvances_OrEqual(prev_seqno, seqno) == prev_seqno <= seqno

\* sub->prev_seqno < seqno
SeqnoAdvances(prev_seqno, seqno) == prev_seqno < seqno

\* Mutant: the subscription starts with prev_seqno at its start seqno.
InitialPrevSeqno_AtStart(start_seqno) ==
  start_seqno

\* start_seqno == 0 ? start_seqno : start_seqno - 1
InitialPrevSeqno(start_seqno) ==
  IF start_seqno = 0 THEN start_seqno ELSE start_seqno - 1

\* The (stream, sub_id) pairs in use: two subscriptions on stream 1, one on
\* stream 2.
InboundIDs == {<<1, 1>>, <<1, 2>>, <<2, 1>>}

RECURSIVE SumLen(_, _)
SumLen(f, keys) ==
  IF keys = {} THEN 0
  ELSE LET k == CHOOSE x \in keys : TRUE
       IN  Len(f[k]) + SumLen(f, keys \ {k})

\* Room for n more entries, once the entries of `freed` are dropped.
TraceRoom(n, freed) ==
  SumLen(rk_trace, InboundIDs \ freed) + n <= MaxEvents

InitRocketeer ==
  /\ inbound_subscriptions_ = <<>>
  /\ dropped_reordered = 0
  /\ duplicates_ignored = FALSE
  /\ rk_trace = [i \in InboundIDs |-> <<>>]

\* Deliver and Advance: the message is sent and prev_seqno moves when the
\* subscription exists and the seqno advances; a seqno that does not advance
\* is counted and dropped; an unknown subscription is only logged.
DeliverOrAdvance(ev, info, stream_id, sub_id, seqno) ==
  IF ~HasInbound(stream_id, sub_id)
    THEN UNCHANGED rkVars
  ELSE LET sub == FindInbound(stream_id, sub_id) IN
    IF SeqnoAdvances(sub.prev_seqno, seqno)
      THEN /\ TraceRoom(1, {})
           /\ rk_trace' = [rk_trace EXCEPT ![<<stream_id, sub_id>>] =
                 Append(@, Event(ev, stream_id, sub_id, sub.tenant_id,
                                 sub.prev_seqno, seqno, info))]
           /\ inbound_subscriptions_' =
                 [inbound_subscriptions_ EXCEPT
                    ![stream_id][sub_id].prev_seqno = seqno]
           /\ UNCHANGED <<dropped_reordered, duplicates_ignored>>
      ELSE /\ dropped_reordered < MaxDropped
           /\ dropped_reordered' = dropped_reordered + 1
           /\ UNCHANGED <<inbound_subscriptions_, rk_trace,
                          duplicates_ignored>>

Deliver(stream_id, sub_id, seqno) ==
  /\ DeliverOrAdvance("DeliverData", "", stream_id, sub_id, seqno)

Advance(stream_id, sub_id, seqno) ==
  /\ DeliverOrAdvance("DeliverGap", "kBenign", stream_id, sub_id, seqno)

\* Mutant: the subscription stays after the termination.
Terminate_KeepsState(stream_id, sub_id, reason) ==
  /\ IF HasInbound(stream_id, sub_id)
       THEN /\ TraceRoom(2, {})
            /\ rk_trace' = [rk_trace EXCEPT ![<<stream_id, sub_id>>] = @ \o
                  <<Event("HandleTermination", stream_id, sub_id,
                          FindInbound(stream_id, sub_id).tenant_id, 0, 0,
                          "Rocketeer"),
                    Event("Unsubscribe", stream_id, sub_id,
                          FindInbound(stream_id, sub_id).tenant_id, 0, 0,
                          reason)>>]
       ELSE UNCHANGED rk_trace
  /\ UNCHANGED <<inbound_subscriptions_, dropped_reordered,
                 duplicates_ignored>>

Terminate(stream_id, sub_id, reason) ==
  /\ IF HasInbound(stream_id, sub_id)
       THEN /\ TraceRoom(2, {})
            /\ inbound_subscriptions_' =
                  [inbound_subscriptions_ EXCEPT
                     ![stream_id] = MapErase(@, sub_id)]
            /\ rk_trace' = [rk_trace EXCEPT ![<<stream_id, sub_id>>] = @ \o
                  <<Event("HandleTermination", stream_id, sub_id,
                          FindInbound(stream_id, sub_id).tenant_id, 0, 0,
                          "Rocketeer"),
                    Event("Unsubscribe", stream_id, sub_id,
                          FindInbound(stream_id, sub_id).tenant_id, 0, 0,
                          reason)>>]
       ELSE UNCHANGED <<inbound_subscriptions_, rk_trace>>
  /\ UNCHANGED <<dropped_reordered, duplicates_ignored>>

\* Mutant: a Subscribe for a stored (stream, sub_id) replaces the entry and
\* is announced like a new one.
ReceiveSubscribe_Overwrites(origin, sub_id, tenant_id, start_seqno) ==
  /\ TraceRoom(1, {<<origin, sub_id>>})
  /\ inbound_subscriptions_' =
        MapPut(inbound_subscriptions_, origin,
               MapPut(IF origin \in DOMAIN inbound_subscriptions_
                        THEN inbound_subscriptions_[origin]
                        ELSE <<>>,
                      sub_id,
                      InboundSubscription(
                        tenant_id, InitialPrevSeqno(start_seqno))))
  /\ rk_trace' = [rk_trace EXCEPT ![<<origin, sub_id>>] =
        <<Event("HandleNewSubscription", origin, sub_id, tenant_id,
                0, start_seqno, "")>>]
  /\ duplicates_ignored' = (duplicates_ignored \/ HasInbound(origin, sub_id))
  /\ UNCHANGED dropped_reordered

ReceiveSubscribe(origin, sub_id, tenant_id, start_seqno) ==
  /\ IF HasInbound(origin, sub_id)
       THEN UNCHANGED <<inbound_subscriptions_, rk_trace>>
       ELSE /\ TraceRoom(1, {<<origin, sub_id>>})
            /\ inbound_subscriptions_' =
                  MapPut(inbound_subscriptions_, origin,
                         MapPut(IF origin \in DOMAIN inbound_subscriptions_
                                  THEN inbound_subscriptions_[origin]
                                  ELSE <<>>,
                                sub_id,
                                InboundSubscription(
                                  tenant_id, InitialPrevSeqno(start_seqno))))
            /\ rk_trace' = [rk_trace EXCEPT ![<<origin, sub_id>>] =
                  <<Event("HandleNewSubscription", origin, sub_id, tenant_id,
                          0, start_seqno, "")>>]
  /\ duplicates_ignored' = (duplicates_ignored \/ HasInbound(origin, sub_id))
  /\ UNCHANGED dropped_reordered

\* Mutant: HandleTermination is invoked and the subscription stays.
ReceiveUnsubscribe_KeepsState(origin, sub_id) ==
  /\ IF HasInbound(origin, sub_id)
       THEN /\ TraceRoom(1, {})
            /\ rk_trace' = [rk_trace EXCEPT ![<<origin, sub_id>>] =
                  Append(@, Event("HandleTermination", origin, sub_id,
                                  FindInbound(origin, sub_id).tenant_id, 0, 0,
                                  "Subscriber"))]
       ELSE UNCHANGED rk_trace
  /\ UNCHANGED <<inbound_subscriptions_, dropped_reordered,
                 duplicates_ignored>>

ReceiveUnsubscribe(origin, sub_id) ==
  /\ IF HasInbound(origin, sub_id)
       THEN /\ TraceRoom(1, {})
            /\ inbound_subscriptions_' =
                  IF DOMAIN inbound_subscriptions_[origin] = {sub_id}
                    THEN MapErase(inbound_subscriptions_, origin)
                    ELSE [inbound_subscriptions_ EXCEPT
                            ![origin] = MapErase(@, sub_id)]
            /\ rk_trace' = [rk_trace EXCEPT ![<<origin, sub_id>>] =
                  Append(@, Event("HandleTermination", origin, sub_id,
                                  FindInbound(origin, sub_id).tenant_id, 0, 0,
                                  "Subscriber"))]
       ELSE UNCHANGED <<inbound_subscriptions_, rk_trace>>
  /\ UNCHANGED <<dropped_reordered, duplicates_ignored>>

\* Mutant: the stream's subscriptions are dropped without a callback.
ReceiveGoodbye_Quiet(origin) ==
  /\ inbound_subscriptions_' = MapErase(inbound_subscriptions_, origin)
  /\ UNCHANGED <<rk_trace, dropped_reordered, duplicates_ignored>>

\* Each entry of the stream gets one HandleTermination; the order of the
\* loop over the unordered_map shows in no single subscription's trace.
ReceiveGoodbye(origin) ==
  /\ IF origin \in DOMAIN inbound_subscriptions_
       THEN /\ TraceRoom(Cardinality(DOMAIN inbound_subscriptions_[origin]),
                         {})
            /\ rk_trace' =
                  [i \in InboundIDs |->
                     IF i[1] = origin /\ HasInbound(i[1], i[2])
                       THEN Append(rk_trace[i],
                              Event("HandleTermination", origin, i[2],
                                    FindInbound(origin, i[2]).tenant_id, 0, 0,
                                    "Subscriber"))
                       ELSE rk_trace[i]]
            /\ inbound_subscriptions_' =
                  MapErase(inbound_subscriptions_, origin)
       ELSE UNCHANGED <<inbound_subscriptions_, rk_trace>>
  /\ UNCHANGED <<dropped_reordered, duplicates_ignored>>

NextRocketeer ==
  \/ \E i \in InboundIDs, seqno \in Seqnos :
       Deliver(i[1], i[2], seqno) /\ RocketeerFrame
  \/ \E i \in InboundIDs, seqno \in Seqnos :
       Advance(i[1], i[2], seqno) /\ RocketeerFrame
  \/ \E i \in InboundIDs, reason \in Reasons :
       Terminate(i[1], i[2], reason) /\ RocketeerFrame
  \/ \E i \in InboundIDs, t \in TenantIDs, start \in Seqnos :
       ReceiveSubscribe(i[1], i[2], t, start) /\ RocketeerFrame
  \/ \E i \in InboundIDs : ReceiveUnsubscribe(i[1], i[2]) /\ RocketeerFrame
  \/ \E st \in StreamIDs : ReceiveGoodbye(st) /\ RocketeerFrame

(***************************************************************************)
(* LogTailer                                                               *)
(***************************************************************************)
ReaderIDs == {0}
LogIDs == {1, 2}
LogSeqnos == 1..MaxLogSeqno
GapTypes == {"kBenign", "kDataLoss"}

\* The command record_cb forwards for a record that deserializes: a call of
\* RecordCallback; from = to = the record's seqno.
RecordCommand(log_id, seqno, reader_id) ==
  [kind |-> "record", log_id |-> log_id, type |-> "", from |-> seqno,
   to |-> seqno, reader_id |-> reader_id]

\* The command gap_cb forwards, and record_cb for a corrupt record: a call of
\* GapCallback.
GapCommand(log_id, type, from, to, reader_id) ==
  [kind |-> "gap", log_id |-> log_id, type |-> type, from |-> from,
   to |-> to, reader_id |-> reader_id]

\* What the user's callback was handed.
Forwarded(c) == [kind |-> c.kind, type |-> c.type, from |-> c.from, to |-> c.to]

IsOpen(reader_id, log_id) == log_id \in DOMAIN log_state[reader_id]

\* Mutant: a seqno beyond the expected one is accepted too.
ExpectedMatches_AtLeast(expected, seqno) == expected <= seqno

\* it->second != seqno is the out-of-order case.
ExpectedMatches(expected, seqno) == expected = seqno

\* Mutant: the expected seqno stays at the seqno just accepted.
NextExpected_Same(last) == last

\* it->second = seqno + 1, it->second = to + 1
NextExpected(last) == last + 1

\* A record of the storage: its log, its seqno and whether its payload fails
\* to deserialize.
LogRecord(log_id, seqno, corrupt) ==
  [log_id |-> log_id, seqno |-> seqno, corrupt |-> corrupt]

\* A record whose contents were moved out.
MovedFrom == [log_id |-> 0, seqno |-> 0, corrupt |-> TRUE]

\* new LogRecordMessageData(std::move(record), &st): the message holds the
\* record, and st is not OK when the payload does not deserialize.
LogRecordMessageData(record) == [record |-> record, st_ok |-> ~record.corrupt]

MoveRecord(msg) == msg.record

\* Mutant: the record stays moved out when the forward failed.
RecordAfter_Consumed(success, msg) == MovedFrom

\* if (!success) { record = msg->MoveRecord(); }: what the storage holds in
\* record when record_cb returns.
RecordAfter(success, msg) == IF success THEN MovedFrom ELSE MoveRecord(msg)

\* The steps lt_last tells apart.
NoStep ==
  [op |-> "none", ok |-> TRUE, intact |-> FALSE, corrupt |-> FALSE,
   late |-> FALSE]

\* record_cb returned ok; intact: the storage's record is the one it passed.
RecordStep(ok, intact, corrupt) ==
  [op |-> "record_cb", ok |-> ok, intact |-> intact, corrupt |-> corrupt,
   late |-> FALSE]

\* gap_cb returned ok.
GapStep(ok) ==
  [op |-> "gap_cb", ok |-> ok, intact |-> FALSE, corrupt |-> FALSE,
   late |-> FALSE]

\* The loop ran a command; ok: the user's callback was invoked; late: the
\* command was for a log that StopReading had closed; corrupt: it was for a
\* record that failed to deserialize.
CallbackStep(ok, late, corrupt) ==
  [op |-> "callback", ok |-> ok, intact |-> FALSE, corrupt |-> corrupt,
   late |-> late]

ReadingStep(op, ok) ==
  [op |-> op, ok |-> ok, intact |-> FALSE, corrupt |-> FALSE, late |-> FALSE]

InitLogTailer ==
  /\ log_state = [r \in ReaderIDs |-> <<>>]
  /\ storage_queue = <<>>
  /\ lt_start = [r \in ReaderIDs |-> [l \in LogIDs |-> 0]]
  /\ lt_forwarded = [r \in ReaderIDs |-> [l \in LogIDs |-> <<>>]]
  /\ script_pos = [l \in LogIDs |-> 0]
  /\ lt_stopped = [r \in ReaderIDs |-> [l \in LogIDs |-> FALSE]]
  /\ lt_last = NoStep
  /\ lt_origin = <<>>

\* TryForward returns false when the failure is forced or the queue is full.
TryForwardSucceeds(force_failure) ==
  ~force_failure /\ Len(storage_queue) < QueueSize

\* TryForward: on failure nothing is written.
TryForward(command, force_failure) ==
  IF TryForwardSucceeds(force_failure)
    THEN storage_queue' = Append(storage_queue, command)
    ELSE storage_queue' = storage_queue

\* Mutant: a record that fails to deserialize is forwarded as a record.
RecordCommandOf_Unchecked(msg, reader_id) ==
  RecordCommand(msg.record.log_id, msg.record.seqno, reader_id)

\* The command record_cb forwards for the message built from the record:
\* GapCallback(kDataLoss, seqno, seqno) when st is not OK, RecordCallback
\* otherwise.
RecordCommandOf(msg, reader_id) ==
  IF ~msg.st_ok
    THEN GapCommand(msg.record.log_id, "kDataLoss", msg.record.seqno,
                    msg.record.seqno, reader_id)
    ELSE RecordCommand(msg.record.log_id, msg.record.seqno, reader_id)

\* record_cb, run by a storage thread.
record_cb(log_id, seqno, corrupt, reader_id, force_failure) ==
  /\ TryForward(RecordCommandOf(
                  LogRecordMessageData(LogRecord(log_id, seqno, corrupt)),
                  reader_id),
                force_failure)
  /\ UNCHANGED <<log_state, lt_start, lt_forwarded>>

\* gap_cb, run by a storage thread.
gap_cb(log_id, type, from, to, reader_id, force_failure) ==
  /\ TryForward(GapCommand(log_id, type, from, to, reader_id), force_failure)
  /\ UNCHANGED <<log_state, lt_start, lt_forwarded, script_pos>>

\* The command c is for an open log that expects it.
Accepted(c) ==
  /\ IsOpen(c.reader_id, c.log_id)
  /\ ExpectedMatches(log_state[c.reader_id][c.log_id], c.from)

\* RecordCallback and GapCallback, run on the tailer's loop: a command for a
\* log that is not open or not at the expected seqno is dropped; otherwise
\* the expected seqno advances and the user's callback is invoked.
RunCallback(c) ==
  IF Accepted(c)
    THEN /\ log_state' = [log_state EXCEPT ![c.reader_id][c.log_id] =
                            NextExpected(c.to)]
         /\ lt_forwarded' = [lt_forwarded EXCEPT ![c.reader_id][c.log_id] =
                               Append(@, Forwarded(c))]
    ELSE UNCHANGED <<log_state, lt_forwarded>>

\* The loop takes the next command off the queue and runs it.
DrainQueue ==
  /\ storage_queue # <<>>
  /\ storage_queue' = Tail(storage_queue)
  /\ RunCallback(Head(storage_queue))
  /\ UNCHANGED <<lt_start, script_pos>>

StartReading(logid, start, reader_id, open_ok) ==
  /\ IF open_ok
       THEN /\ log_state' = [log_state EXCEPT ![reader_id] =
                               MapPut(@, logid, start)]
            /\ lt_start' = [lt_start EXCEPT ![reader_id][logid] = start]
            /\ lt_forwarded' = [lt_forwarded EXCEPT ![reader_id][logid] = <<>>]
       ELSE UNCHANGED <<log_state, lt_start, lt_forwarded>>
  /\ UNCHANGED <<storage_queue, script_pos>>

\* Mutant: StopReading closes the log with the storage and keeps its state.
StopReading_KeepsState(logid, reader_id) ==
  UNCHANGED <<log_state, lt_start, lt_forwarded, storage_queue, script_pos>>

\* StopReading, run on the tailer's loop.
StopReading(logid, reader_id) ==
  /\ IF IsOpen(reader_id, logid)
       THEN /\ log_state' = [log_state EXCEPT ![reader_id] = MapErase(@, logid)]
            /\ lt_start' = [lt_start EXCEPT ![reader_id][logid] = 0]
            /\ lt_forwarded' = [lt_forwarded EXCEPT ![reader_id][logid] = <<>>]
       ELSE UNCHANGED <<log_state, lt_start, lt_forwarded>>
  /\ UNCHANGED <<storage_queue, script_pos>>

\* The steps of the tailer with nobody observing them.
Unobserved == UNCHANGED <<lt_stopped, lt_last, lt_origin>>

NextLogTailer ==
  \/ \E r \in ReaderIDs, l \in LogIDs, seqno \in LogSeqnos,
        corrupt \in BOOLEAN, force_failure \in BOOLEAN :
       /\ record_cb(l, seqno, corrupt, r, force_failure)
       /\ UNCHANGED script_pos
       /\ Unobserved
       /\ LogTailerFrame
  \/ \E r \in ReaderIDs, l \in LogIDs, type \in GapTypes,
        from \in LogSeqnos, to \in LogSeqnos, force_failure \in BOOLEAN :
       /\ from <= to
       /\ gap_cb(l, type, from, to, r, force_failure)
       /\ Unobserved
       /\ LogTailerFrame
  \/ DrainQueue /\ Unobserved /\ LogTailerFrame
  \/ \E r \in ReaderIDs, l \in LogIDs, start \in LogSeqnos,
        open_ok \in BOOLEAN :
       StartReading(l, start, r, open_ok) /\ Unobserved /\ LogTailerFrame
  \/ \E r \in ReaderIDs, l \in LogIDs :
       StopReading(l, r) /\ Unobserved /\ LogTailerFrame

\* ---- The tailer of one log, observed ----
\* Each step is the tailer's own; lt_last and lt_stopped tell what the step
\* was, what it returned to the storage and whether the log had been stopped.
ObservedLogs == {1}

ObservedRecord(log_id, seqno, corrupt, reader_id, force_failure) ==
  /\ record_cb(log_id, seqno, corrupt, reader_id, force_failure)
  /\ lt_last' = RecordStep(
       TryForwardSucceeds(force_failure),
       RecordAfter(TryForwardSucceeds(force_failure),
                   LogRecordMessageData(LogRecord(log_id, seqno, corrupt)))
         = LogRecord(log_id, seqno, corrupt),
       corrupt)
  /\ lt_origin' = IF TryForwardSucceeds(force_failure)
                    THEN Append(lt_origin, corrupt) ELSE lt_origin
  /\ UNCHANGED <<script_pos, lt_stopped>>

ObservedGap(log_id, type, from, to, reader_id, force_failure) ==
  /\ gap_cb(log_id, type, from, to, reader_id, force_failure)
  /\ lt_last' = GapStep(TryForwardSucceeds(force_failure))
  /\ lt_origin' = IF TryForwardSucceeds(force_failure)
                    THEN Append(lt_origin, FALSE) ELSE lt_origin
  /\ UNCHANGED lt_stopped

ObservedCallback ==
  /\ DrainQueue
  /\ lt_last' = CallbackStep(
       Accepted(Head(storage_queue)),
       lt_stopped[Head(storage_queue).reader_id][Head(storage_queue).log_id],
       Head(lt_origin))
  /\ lt_origin' = Tail(lt_origin)
  /\ UNCHANGED lt_stopped

ObservedStart(logid, start, reader_id, open_ok) ==
  /\ StartReading(logid, start, reader_id, open_ok)
  /\ lt_last' = ReadingStep("StartReading", open_ok)
  /\ UNCHANGED lt_origin
  /\ lt_stopped' = [lt_stopped EXCEPT ![reader_id][logid] = @ /\ ~open_ok]

ObservedStop(logid, reader_id) ==
  /\ StopReading(logid, reader_id)
  /\ lt_last' = ReadingStep("StopReading", IsOpen(reader_id, logid))
  /\ UNCHANGED lt_origin
  /\ lt_stopped' = [lt_stopped EXCEPT ![reader_id][logid] =
                      @ \/ IsOpen(reader_id, logid)]

NextObserved ==
  \/ \E r \in ReaderIDs, l \in ObservedLogs, seqno \in LogSeqnos,
        corrupt \in BOOLEAN, force_failure \in BOOLEAN :
       ObservedRecord(l, seqno, corrupt, r, force_failure) /\ LogTailerFrame
  \/ \E r \in ReaderIDs, l \in ObservedLogs, type \in GapTypes,
        from \in LogSeqnos, to \in LogSeqnos, force_failure \in BOOLEAN :
       /\ from <= to
       /\ ObservedGap(l, type, from, to, r, force_failure)
       /\ LogTailerFrame
  \/ ObservedCallback /\ LogTailerFrame
  \/ \E r \in ReaderIDs, l \in ObservedLogs, start \in LogSeqnos,
        open_ok \in BOOLEAN :
       ObservedStart(l, start, r, open_ok) /\ LogTailerFrame
  \/ \E r \in ReaderIDs, l \in ObservedLogs :
       ObservedStop(l, r) /\ LogTailerFrame

(***************************************************************************)
(* Subscriber (single shard).  subscriber.h declares the state; the        *)
(* handlers follow the specification's sections 4.5 and 3.                 *)
(***************************************************************************)
ClientSubIds == {1}
ClientSeqnos == 0..MaxClientSeqno

\* The ticks an entry stays in recent_terminations_ (the dedup window).
TerminationWindow == 2
\* The ticks between a goodbye and the reopening of the server stream.
BackoffTicks == 1

\* Mutant: expected_seqno_ is not initialised from the parameters.
SubscriptionState_FromZero(start_seqno) == [expected_seqno_ |-> 0]

\* SubscriptionState's constructor: of parameters.start_seqno only
\* expected_seqno_ is kept.
SubscriptionState(start_seqno) == [expected_seqno_ |-> start_seqno]

GetExpected(sub_state) == sub_state.expected_seqno_

\* Mutant: a message beyond the expected seqno is accepted whatever its
\* prev_seqno.
GapPreambleAccepted_Always(expected, prev_seqno) == TRUE

\* A message beyond the expected seqno is accepted when it begins at the
\* expected seqno.
GapPreambleAccepted(expected, prev_seqno) == prev_seqno = expected

\* Mutant: a message at or below the expected seqno is emitted again.
ProcessMessage_EmitsOld(expected, prev_seqno, seqno) ==
  IF seqno <= expected THEN "emitted"
  ELSE IF prev_seqno = expected THEN "emitted"
  ELSE "resubscribe"

\* SubscriptionState::ProcessMessage: how a Deliver ends on a subscription.
ProcessMessage(expected, prev_seqno, seqno) ==
  IF seqno < expected THEN "dropped"
  ELSE IF seqno = expected THEN "emitted"
  ELSE IF GapPreambleAccepted(expected, prev_seqno) THEN "emitted"
  ELSE "resubscribe"

\* Mutant: the Unsubscribe is not remembered.
RememberTermination_Forgotten(terminations, sub_id) == terminations

\* recent_terminations_.Add(sub_id)
RememberTermination(terminations, sub_id) == MapPut(terminations, sub_id, 0)

\* The start seqno of the Subscribe written for a subscription: the seqno
\* after the last acknowledged one, else what the subscription state holds.
ResubscribeStart(sub_id) ==
  IF sub_id \in DOMAIN last_acks_map_
    THEN last_acks_map_[sub_id] + 1
    ELSE GetExpected(subscriptions_[sub_id])

InitSubscriber ==
  /\ subscriptions_ = <<>>
  /\ last_acks_map_ = <<>>
  /\ pending_subscriptions_ = {}
  /\ server_stream_ = FALSE
  /\ backoff_ticks = 0
  /\ goodbyes_seen = 0
  /\ recent_terminations_ = <<>>
  /\ sub_start = <<>>
  /\ sub_emitted = [sub_id \in ClientSubIds |-> <<>>]
  /\ sent_subscribe = <<>>
  /\ unsub_ages = [sub_id \in ClientSubIds |-> <<>>]
  /\ deduplicated = {}

StartSubscription(sub_id, start_seqno) ==
  /\ sub_id \notin DOMAIN sub_start
  /\ subscriptions_' =
       MapPut(subscriptions_, sub_id, SubscriptionState(start_seqno))
  /\ pending_subscriptions_' = pending_subscriptions_ \cup {sub_id}
  /\ sub_start' = MapPut(sub_start, sub_id, start_seqno)
  /\ UNCHANGED <<last_acks_map_, server_stream_, backoff_ticks, goodbyes_seen,
                 recent_terminations_, sub_emitted, sent_subscribe,
                 unsub_ages, deduplicated>>

\* The application acknowledges a message it received on the subscription.
Acknowledge(sub_id, seqno) ==
  /\ sub_id \in DOMAIN subscriptions_
  /\ \E j \in 1..Len(sub_emitted[sub_id]) : sub_emitted[sub_id][j].seqno = seqno
  /\ last_acks_map_' = MapPut(last_acks_map_, sub_id, seqno)
  /\ UNCHANGED <<subscriptions_, pending_subscriptions_, server_stream_,
                 backoff_ticks, goodbyes_seen, recent_terminations_,
                 sub_start, sub_emitted, sent_subscribe, unsub_ages,
                 deduplicated>>

TerminateSubscription(sub_id) ==
  /\ sub_id \in DOMAIN subscriptions_
  /\ subscriptions_' = MapErase(subscriptions_, sub_id)
  /\ last_acks_map_' = MapErase(last_acks_map_, sub_id)
  /\ pending_subscriptions_' = pending_subscriptions_ \cup {sub_id}
  /\ UNCHANGED <<server_stream_, backoff_ticks, goodbyes_seen,
                 recent_terminations_, sub_start, sub_emitted,
                 sent_subscribe, unsub_ages, deduplicated>>

\* The processor of pending_subscriptions_ writes a Subscribe for an ID that
\* has a subscription and an Unsubscribe for one that has none.
ProcessPendingSubscription(sub_id) ==
  /\ server_stream_
  /\ sub_id \in pending_subscriptions_
  /\ pending_subscriptions_' = pending_subscriptions_ \ {sub_id}
  /\ sent_subscribe' =
       IF sub_id \in DOMAIN subscriptions_
         THEN MapPut(sent_subscribe, sub_id, ResubscribeStart(sub_id))
         ELSE MapErase(sent_subscribe, sub_id)
  /\ UNCHANGED <<subscriptions_, last_acks_map_, server_stream_,
                 backoff_ticks, goodbyes_seen, recent_terminations_,
                 sub_start, sub_emitted, unsub_ages, deduplicated>>

\* ReceiveDeliver: for an unknown ID an Unsubscribe is written back unless one
\* was written recently; for a known one the message is processed.
ReceiveDeliver(sub_id, prev_seqno, seqno) ==
  /\ server_stream_
  /\ IF sub_id \notin DOMAIN subscriptions_
       THEN /\ IF sub_id \in DOMAIN recent_terminations_
                 THEN /\ deduplicated' = deduplicated \cup {sub_id}
                      /\ UNCHANGED <<recent_terminations_, unsub_ages>>
                 ELSE /\ recent_terminations_' =
                           RememberTermination(recent_terminations_, sub_id)
                      /\ unsub_ages' =
                           [unsub_ages EXCEPT ![sub_id] = Append(@, 0)]
                      /\ UNCHANGED deduplicated
            /\ UNCHANGED <<subscriptions_, pending_subscriptions_,
                           sub_emitted>>
       ELSE LET outcome ==
                  ProcessMessage(GetExpected(subscriptions_[sub_id]),
                                 prev_seqno, seqno)
            IN  /\ subscriptions_' =
                     IF outcome = "emitted"
                       THEN [subscriptions_ EXCEPT
                               ![sub_id].expected_seqno_ = seqno + 1]
                       ELSE subscriptions_
                /\ sub_emitted' =
                     IF outcome = "emitted"
                       THEN [sub_emitted EXCEPT ![sub_id] =
                               Append(@, [prev_seqno |-> prev_seqno,
                                          seqno |-> seqno])]
                       ELSE sub_emitted
                /\ pending_subscriptions_' =
                     IF outcome = "resubscribe"
                       THEN pending_subscriptions_ \cup {sub_id}
                       ELSE pending_subscriptions_
                /\ UNCHANGED <<recent_terminations_, unsub_ages,
                               deduplicated>>
  /\ UNCHANGED <<last_acks_map_, server_stream_, backoff_ticks, goodbyes_seen,
                 sub_start, sent_subscribe>>

\* ReceiveUnsubscribe: the server terminates the subscription.
SubscriberReceiveUnsubscribe(sub_id) ==
  /\ server_stream_
  /\ sub_id \in DOMAIN subscriptions_
  /\ subscriptions_' = MapErase(subscriptions_, sub_id)
  /\ last_acks_map_' = MapErase(last_acks_map_, sub_id)
  /\ UNCHANGED <<pending_subscriptions_, server_stream_, backoff_ticks,
                 goodbyes_seen, recent_terminations_, sub_start, sub_emitted,
                 sent_subscribe, unsub_ages, deduplicated>>

\* ReceiveGoodbye, CloseServerStream: the stream is closed, what was pending
\* is flushed and the reopening is scheduled; the subscriptions stay.
SubscriberReceiveGoodbye ==
  /\ server_stream_
  /\ goodbyes_seen < MaxGoodbyes
  /\ server_stream_' = FALSE
  /\ pending_subscriptions_' = {}
  /\ sent_subscribe' = <<>>
  /\ backoff_ticks' = BackoffTicks
  /\ goodbyes_seen' = goodbyes_seen + 1
  /\ UNCHANGED <<subscriptions_, last_acks_map_, recent_terminations_,
                 sub_start, sub_emitted, unsub_ages, deduplicated>>

\* The entries one tick older, without those that reached the window.
Aged(ages) ==
  [x \in {y \in DOMAIN ages : ages[y] + 1 < TerminationWindow} |-> ages[x] + 1]

AgedSeq(ages) ==
  SelectSeq([j \in 1..Len(ages) |-> ages[j] + 1],
            LAMBDA a : a < TerminationWindow)

\* Tick: UpdateRecentTerminations, and with the stream closed and the backoff
\* over RestoreServerStream, which makes every subscription pending again.
Tick ==
  /\ recent_terminations_' = Aged(recent_terminations_)
  /\ unsub_ages' = [sub_id \in ClientSubIds |-> AgedSeq(unsub_ages[sub_id])]
  /\ deduplicated' = deduplicated \cap DOMAIN Aged(recent_terminations_)
  /\ IF server_stream_
       THEN UNCHANGED <<server_stream_, backoff_ticks, pending_subscriptions_>>
       ELSE IF backoff_ticks > 0
         THEN /\ backoff_ticks' = backoff_ticks - 1
              /\ UNCHANGED <<server_stream_, pending_subscriptions_>>
         ELSE /\ server_stream_' = TRUE
              /\ pending_subscriptions_' = DOMAIN subscriptions_
              /\ UNCHANGED backoff_ticks
  /\ UNCHANGED <<subscriptions_, last_acks_map_, goodbyes_seen, sub_start,
                 sub_emitted, sent_subscribe>>

NextSubscriber ==
  \/ \E sub_id \in ClientSubIds, start_seqno \in ClientSeqnos :
       StartSubscription(sub_id, start_seqno) /\ SubscriberFrame
  \/ \E sub_id \in ClientSubIds, seqno \in ClientSeqnos :
       Acknowledge(sub_id, seqno) /\ SubscriberFrame
  \/ \E sub_id \in ClientSubIds : TerminateSubscription(sub_id) /\ SubscriberFrame
  \/ \E sub_id \in ClientSubIds :
       ProcessPendingSubscription(sub_id) /\ SubscriberFrame
  \/ \E sub_id \in ClientSubIds, prev_seqno \in ClientSeqnos,
        seqno \in ClientSeqnos :
       /\ prev_seqno <= seqno
       /\ ReceiveDeliver(sub_id, prev_seqno, seqno)
       /\ SubscriberFrame
  \/ \E sub_id \in ClientSubIds :
       SubscriberReceiveUnsubscribe(sub_id) /\ SubscriberFrame
  \/ SubscriberReceiveGoodbye /\ SubscriberFrame
  \/ Tick /\ SubscriberFrame

(***************************************************************************)
(* TailCollapsingSubscriber.  subscriber.h declares the state; the         *)
(* handlers follow the specification's section 4.6.                        *)
(***************************************************************************)
\* The downstream IDs: 1 and 2 are on one (namespace, topic), 4 on another.
TcSubIds == {1, 2, 4}
\* 0 is the tail.
TcStarts == {0, 1}

\* A new subscription joins the upstream found for its topic when it starts
\* at the tail and the upstream did not start later.
CanCollapse(upstream_start, start_seqno) ==
  start_seqno = 0 /\ upstream_start <= start_seqno

\* The upstream subscription that serves a downstream one.
UpstreamOf(sub_id) ==
  IF sub_id \in DOMAIN downstream_to_upstream_
    THEN downstream_to_upstream_[sub_id]
    ELSE sub_id

\* TailCollapsingObserver: the record goes to every downstream observer of
\* the upstream subscription.
Multicast(downstream, observers, record) ==
  [d \in DOMAIN downstream |->
     IF d \in observers
       THEN [downstream[d] EXCEPT !.received = Append(@, record)]
       ELSE downstream[d]]

InitTailCollapsing ==
  /\ tc_upstream = <<>>
  /\ downstream_to_upstream_ = <<>>
  /\ tc_downstream = <<>>
  /\ tc_used = {}

TcStartSubscription(sub_id, start_seqno) ==
  /\ sub_id \notin tc_used
  /\ ~map_fault
  /\ tc_used' = tc_used \cup {sub_id}
  /\ LET upstream_id == Find(get_state_(sub_id)).sub_id
         own == [start_seqno |-> start_seqno, observers |-> {sub_id},
                 delivered |-> 0]
     IN  IF upstream_id = kReservedSubscriptionID
           THEN /\ tc_upstream' = MapPut(tc_upstream, sub_id, own)
                /\ Insert(sub_id)
                /\ tc_downstream' =
                     MapPut(tc_downstream, sub_id,
                            [start_seqno |-> start_seqno, joined |-> 0,
                             received |-> <<>>])
                /\ UNCHANGED downstream_to_upstream_
         ELSE IF CanCollapse(tc_upstream[upstream_id].start_seqno, start_seqno)
           THEN /\ tc_upstream' =
                     [tc_upstream EXCEPT
                        ![upstream_id].observers = @ \cup {sub_id}]
                /\ downstream_to_upstream_' =
                     MapPut(downstream_to_upstream_, sub_id, upstream_id)
                /\ tc_downstream' =
                     MapPut(tc_downstream, sub_id,
                            [start_seqno |-> start_seqno,
                             joined |-> tc_upstream[upstream_id].delivered,
                             received |-> <<>>])
                /\ UNCHANGED mapVars
         ELSE /\ tc_upstream' = MapPut(tc_upstream, sub_id, own)
              /\ tc_downstream' =
                   MapPut(tc_downstream, sub_id,
                          [start_seqno |-> start_seqno, joined |-> 0,
                           received |-> <<>>])
              /\ UNCHANGED <<downstream_to_upstream_, mapVars>>

\* Mutant: the upstream subscription ends with the downstream one that has
\* its ID, whoever else it serves.
TcTerminateSubscription_WithOwner(sub_id) ==
  /\ sub_id \in DOMAIN tc_downstream
  /\ ~map_fault
  /\ tc_downstream' = MapErase(tc_downstream, sub_id)
  /\ downstream_to_upstream_' = MapErase(downstream_to_upstream_, sub_id)
  /\ IF \/ tc_upstream[UpstreamOf(sub_id)].observers = {sub_id}
        \/ UpstreamOf(sub_id) = sub_id
       THEN /\ tc_upstream' = MapErase(tc_upstream, UpstreamOf(sub_id))
            /\ IF UpstreamOf(sub_id) \in StoredIds
                 THEN Remove(UpstreamOf(sub_id))
                 ELSE UNCHANGED mapVars
       ELSE /\ tc_upstream' =
                 [tc_upstream EXCEPT
                    ![UpstreamOf(sub_id)].observers = @ \ {sub_id}]
            /\ UNCHANGED mapVars
  /\ UNCHANGED tc_used

\* TerminateSubscription: the downstream subscription leaves the observer of
\* its upstream; the upstream is terminated when no downstream is left.
TcTerminateSubscription(sub_id) ==
  /\ sub_id \in DOMAIN tc_downstream
  /\ ~map_fault
  /\ tc_downstream' = MapErase(tc_downstream, sub_id)
  /\ downstream_to_upstream_' = MapErase(downstream_to_upstream_, sub_id)
  /\ LET upstream_id == UpstreamOf(sub_id)
         remaining == tc_upstream[upstream_id].observers \ {sub_id}
     IN  IF remaining = {}
           THEN /\ tc_upstream' = MapErase(tc_upstream, upstream_id)
                /\ IF upstream_id \in StoredIds
                     THEN Remove(upstream_id)
                     ELSE UNCHANGED mapVars
           ELSE /\ tc_upstream' =
                     [tc_upstream EXCEPT ![upstream_id].observers = remaining]
                /\ UNCHANGED mapVars
  /\ UNCHANGED tc_used

\* A record arrives on an upstream subscription.
TcDeliver(upstream_id) ==
  /\ upstream_id \in DOMAIN tc_upstream
  /\ tc_upstream[upstream_id].delivered < MaxRecords
  /\ tc_upstream' =
       [tc_upstream EXCEPT ![upstream_id].delivered = @ + 1]
  /\ tc_downstream' =
       Multicast(tc_downstream, tc_upstream[upstream_id].observers,
                 tc_upstream[upstream_id].delivered + 1)
  /\ UNCHANGED <<downstream_to_upstream_, tc_used, mapVars>>

NextTailCollapsing ==
  \/ \E sub_id \in TcSubIds, start_seqno \in TcStarts :
       TcStartSubscription(sub_id, start_seqno) /\ TailCollapsingFrame
  \/ \E sub_id \in TcSubIds :
       TcTerminateSubscription(sub_id) /\ TailCollapsingFrame
  \/ \E sub_id \in TcSubIds : TcDeliver(sub_id) /\ TailCollapsingFrame

(***************************************************************************)
(* The message codec (src/messages/messages.cc, src/util/common/coding.cc). *)
(* A serialised message is a sequence of bytes 0..255; a string field is a *)
(* sequence of bytes too.                                                  *)
(***************************************************************************)
\* kMessageTypeNames: the value of a MessageType is its position in the list.
kMessageTypeNames ==
  <<"invalid", "ping", "publish", "metadata (DEPRECATED)", "data_ack", "gap",
    "deliver", "goodbye", "subscribe", "unsubscribe", "deliver_gap",
    "deliver_data", "find_tail_seqno", "tail_seqno", "deliver_batch",
    "heartbeat", "heartbeat_delta", "backlog_query", "backlog_fill",
    "introduction", "deliver_sub_ack">>

MessageType(name) ==
  CHOOSE t \in 0..(Len(kMessageTypeNames) - 1) : kMessageTypeNames[t + 1] = name

\* sizeof(MsgId): message IDs are this many bytes.
MsgIdSize == 16

\* Clock::duration ticks in one millisecond. MessageHeartbeat::Serialize
\* duration_casts the timestamp to milliseconds and DeSerialize converts the
\* milliseconds back to a Clock::duration without a cast, so that a tick is
\* no longer than a millisecond; the standard clocks tick in micro- or
\* nanoseconds. The model follows two ticks to the millisecond.
TicksPerMs == 2

\* ---- Writers: each gives the bytes it appends to the output ----
PutFixedEnum8(v) == <<v % 256>>

RECURSIVE PutFixedBytes(_, _)
PutFixedBytes(v, n) ==
  IF n = 0 THEN <<>> ELSE <<v % 256>> \o PutFixedBytes(v \div 256, n - 1)

PutFixed16(v) == PutFixedBytes(v, 2)

PutFixed64(v) == PutFixedBytes(v, 8)

\* EncodeVarint32 / EncodeVarint64: seven bits to the byte, the low bits
\* first, bit 7 set on every byte but the last.
RECURSIVE EncodeVarint(_)
EncodeVarint(v) ==
  IF v < 128 THEN <<v>> ELSE <<(v % 128) + 128>> \o EncodeVarint(v \div 128)

PutVarint32(v) == EncodeVarint(v)

PutVarint64(v) == EncodeVarint(v)

PutBytes(s) == s

PutLengthPrefixedSlice(s) == PutVarint32(Len(s)) \o s

PutTopicID(namespace_id, topic_name) ==
  PutLengthPrefixedSlice(namespace_id) \o PutLengthPrefixedSlice(topic_name)

EncodeSubscriptionID(sub_id) == PutVarint64(sub_id)

\* ---- Readers: each gives whether it succeeded, the value read and the ----
\* ---- input that is left                                               ----
ReadFailed == [ok |-> FALSE, v |-> 0, in |-> <<>>]

Read(value, rest) == [ok |-> TRUE, v |-> value, in |-> rest]

Drop(in, n) == SubSeq(in, n + 1, Len(in))

RECURSIVE FixedValue(_)
FixedValue(s) == IF s = <<>> THEN 0 ELSE s[1] + 256 * FixedValue(Tail(s))

GetFixed(in, n) ==
  IF Len(in) < n THEN ReadFailed
  ELSE Read(FixedValue(SubSeq(in, 1, n)), Drop(in, n))

GetFixedEnum8(in) == GetFixed(in, 1)

GetFixed16(in) == GetFixed(in, 2)

GetFixed64(in) == GetFixed(in, 8)

\* GetVarint32PtrFallback / GetVarint64Ptr: the loop reads while
\* shift <= max_shift and input is left; weight is 2^shift.
RECURSIVE GetVarintPtr(_, _, _, _, _)
GetVarintPtr(in, shift, max_shift, weight, result) ==
  IF shift > max_shift \/ in = <<>> THEN ReadFailed
  ELSE IF in[1] >= 128
       THEN GetVarintPtr(Tail(in), shift + 7, max_shift, weight * 128,
                         result + (in[1] - 128) * weight)
       ELSE Read(result + in[1] * weight, Tail(in))

GetVarint32(in) == GetVarintPtr(in, 0, 28, 1, 0)

GetVarint64(in) == GetVarintPtr(in, 0, 63, 1, 0)

GetBytes(in, n) ==
  IF Len(in) < n THEN ReadFailed ELSE Read(SubSeq(in, 1, n), Drop(in, n))

GetLengthPrefixedSlice(in) ==
  LET len == GetVarint32(in) IN
    IF len.ok THEN GetBytes(len.in, len.v) ELSE ReadFailed

GetTopicID(in) ==
  LET namespace_id == GetLengthPrefixedSlice(in)
      topic_name == GetLengthPrefixedSlice(namespace_id.in)
  IN  IF namespace_id.ok /\ topic_name.ok
      THEN Read(<<namespace_id.v, topic_name.v>>, topic_name.in)
      ELSE ReadFailed

DecodeSubscriptionID(in) == GetVarint64(in)

\* A list of n values read one after another with the reader get.
RECURSIVE GetList(_, _, _)
GetList(get(_), in, n) ==
  IF n = 0 THEN Read(<<>>, in)
  ELSE LET head == get(in)
           tail == GetList(get, head.in, n - 1)
       IN  IF head.ok /\ tail.ok
           THEN Read(<<head.v>> \o tail.v, tail.in)
           ELSE ReadFailed

\* The values read with the reader get for as long as it succeeds.
RECURSIVE GetWhile(_, _)
GetWhile(get(_), in) ==
  LET head == get(in) IN
    IF head.ok THEN <<head.v>> \o GetWhile(get, head.in) ELSE <<>>

RECURSIVE Concat(_)
Concat(parts) ==
  IF parts = <<>> THEN <<>> ELSE Head(parts) \o Concat(Tail(parts))

Map(f(_), s) == [i \in DOMAIN s |-> f(s[i])]

\* ---- Messages: a message is the record of its fields ----
\* DeSerialize works through a slice field by field. Its state: whether every
\* read so far succeeded, the input that is left and the fields read so far.
Slice(in) == [ok |-> TRUE, in |-> in, msg |-> <<>>]

BadSlice == [ok |-> FALSE, in |-> <<>>, msg |-> <<>>]

WithField(p, name, value) == [p EXCEPT !.msg = @ @@ (name :> value)]

WithoutField(p, name) ==
  [p EXCEPT !.msg = [k \in DOMAIN @ \ {name} |-> @[k]]]

FieldRead(p, name, read) ==
  IF read.ok THEN WithField([p EXCEPT !.in = read.in], name, read.v)
  ELSE BadSlice

\* if (!get(in, &name)) return Status::InvalidArgument(...)
Field(p, name, get(_)) ==
  IF p.ok THEN FieldRead(p, name, get(p.in)) ELSE BadSlice

OptionalRead(p, name, read, cleared) ==
  IF read.ok THEN WithField([p EXCEPT !.in = read.in], name, read.v)
  ELSE WithField(p, name, cleared)

\* if (!get(in, &name)) { /* OK, for backwards compat. */ }: the field is
\* cleared and the input is left where it was.
OptionalField(p, name, get(_), cleared) ==
  IF p.ok THEN OptionalRead(p, name, get(p.in), cleared) ELSE BadSlice

TopicRead(p, namespace_name, topic_name, read) ==
  IF read.ok
  THEN WithField(WithField([p EXCEPT !.in = read.in],
                           namespace_name, read.v[1]),
                 topic_name, read.v[2])
  ELSE BadSlice

\* if (!GetTopicID(in, &namespace, &topic)) return Status::InvalidArgument(...)
TopicField(p, namespace_name, topic_name) ==
  IF p.ok THEN TopicRead(p, namespace_name, topic_name, GetTopicID(p.in))
  ELSE BadSlice

OptionalTopicRead(p, namespace_name, topic_name, read) ==
  IF read.ok THEN TopicRead(p, namespace_name, topic_name, read)
  ELSE WithField(WithField(p, namespace_name, <<>>), topic_name, <<>>)

\* if (!GetTopicID(in, &namespace, &topic)) { namespace.clear(); topic.clear(); }
OptionalTopicField(p, namespace_name, topic_name) ==
  IF p.ok
  THEN OptionalTopicRead(p, namespace_name, topic_name, GetTopicID(p.in))
  ELSE BadSlice

InvalidArgument == [st_ok |-> FALSE]

\* The Status DeSerialize returns: the message when it is OK.
Status(p) == IF p.ok THEN p.msg ELSE InvalidArgument

\* A message ID is read as a length-prefixed slice of at least sizeof(MsgId)
\* bytes, of which the first sizeof(MsgId) are copied.
MsgIdOf(slice) ==
  IF slice.ok /\ Len(slice.v) >= MsgIdSize
  THEN Read(SubSeq(slice.v, 1, MsgIdSize), slice.in)
  ELSE ReadFailed

GetMsgId(in) == MsgIdOf(GetLengthPrefixedSlice(in))

\* A list of as many values as the count read before it says.
GetCounted(get(_), count) ==
  IF count.ok THEN GetList(get, count.in, count.v) ELSE ReadFailed

\* Message::Serialize / Message::DeSerialize: the type and the tenant.
Message_Serialize(m) == PutFixedEnum8(m.type_) \o PutFixed16(m.tenantid_)

Message_DeSerialize(in) ==
  Field(Field(Slice(in),
    "type_", GetFixedEnum8),
    "tenantid_", GetFixed16)

MessagePing_Serialize(m) ==
  PutFixedEnum8(m.type_) \o PutFixed16(m.tenantid_)
    \o PutFixedEnum8(m.pingtype_) \o PutLengthPrefixedSlice(m.cookie_)

MessagePing_DeSerialize(in) ==
  Status(Field(Field(Field(Field(Slice(in),
    "type_", GetFixedEnum8),
    "tenantid_", GetFixed16),
    "pingtype_", GetFixedEnum8),
    "cookie_", GetLengthPrefixedSlice))

\* MessageData::SerializeInternal: what goes into log storage.
MessageData_SerializeInternal(m) ==
  PutFixed16(m.tenantid_) \o PutTopicID(m.namespaceid_, m.topic_name_)
    \o PutLengthPrefixedSlice(m.msgid_) \o PutLengthPrefixedSlice(m.payload_)

MessageData_Serialize(m) ==
  PutFixedEnum8(m.type_) \o PutVarint64(m.seqno_prev_)
    \o PutVarint64(m.seqno_) \o MessageData_SerializeInternal(m)

MessageData_DeSerializeStorage(p) ==
  Field(Field(TopicField(Field(p,
    "tenantid_", GetFixed16),
    "namespaceid_", "topic_name_"),
    "msgid_", GetMsgId),
    "payload_", GetLengthPrefixedSlice)

MessageData_DeSerialize(in) ==
  Status(MessageData_DeSerializeStorage(Field(Field(Field(Slice(in),
    "type_", GetFixedEnum8),
    "seqno_prev_", GetVarint64),
    "seqno_", GetVarint64)))

PutAck(ack) ==
  PutFixedEnum8(ack.status) \o PutBytes(ack.msgid) \o PutVarint64(ack.seqno)

GetAckMsgId(in) == GetBytes(in, MsgIdSize)

GetAck(in) ==
  Field(Field(Field(Slice(in),
    "status", GetFixedEnum8),
    "msgid", GetAckMsgId),
    "seqno", GetVarint64)

\* The slice as a read: the value is the fields read.
AsRead(p) == IF p.ok THEN Read(p.msg, p.in) ELSE ReadFailed

GetOneAck(in) == AsRead(GetAck(in))

GetAcks(in) == GetCounted(GetOneAck, GetVarint32(in))

MessageDataAck_Serialize(m) ==
  PutFixedEnum8(m.type_) \o PutFixed16(m.tenantid_)
    \o PutVarint32(Len(m.acks_)) \o Concat(Map(PutAck, m.acks_))

MessageDataAck_DeSerialize(in) ==
  Status(Field(Field(Field(Slice(in),
    "type_", GetFixedEnum8),
    "tenantid_", GetFixed16),
    "acks_", GetAcks))

MessageGap_Serialize(m) ==
  PutFixedEnum8(m.type_) \o PutFixed16(m.tenantid_)
    \o PutTopicID(m.namespace_id_, m.topic_name_)
    \o PutFixedEnum8(m.gap_type_)
    \o PutVarint64(m.gap_from_) \o PutVarint64(m.gap_to_)

MessageGap_DeSerialize(in) ==
  Status(Field(Field(Field(TopicField(Field(Field(Slice(in),
    "type_", GetFixedEnum8),
    "tenantid_", GetFixed16),
    "namespace_id_", "topic_name_"),
    "gap_type_", GetFixedEnum8),
    "gap_from_", GetVarint64),
    "gap_to_", GetVarint64))

MessageGoodbye_Serialize(m) ==
  PutFixedEnum8(m.type_) \o PutFixed16(m.tenantid_)
    \o PutFixedEnum8(m.code_) \o PutFixedEnum8(m.origin_type_)

MessageGoodbye_DeSerialize(in) ==
  Status(Field(Field(Field(Field(Slice(in),
    "type_", GetFixedEnum8),
    "tenantid_", GetFixed16),
    "code_", GetFixedEnum8),
    "origin_type_", GetFixedEnum8))

MessageFindTailSeqno_Serialize(m) ==
  Message_Serialize(m) \o PutTopicID(m.namespace_id_, m.topic_name_)

MessageFindTailSeqno_DeSerialize(in) ==
  Status(TopicField(Message_DeSerialize(in), "namespace_id_", "topic_name_"))

MessageTailSeqno_Serialize(m) ==
  Message_Serialize(m) \o PutTopicID(m.namespace_id_, m.topic_name_)
    \o PutVarint64(m.seqno_)

MessageTailSeqno_DeSerialize(in) ==
  Status(Field(TopicField(Message_DeSerialize(in),
    "namespace_id_", "topic_name_"),
    "seqno_", GetVarint64))

\* The cursors of a Subscribe or a SubAck: the count, every source, then
\* every seqno.
CursorSource(cursor) == PutLengthPrefixedSlice(cursor.source)

CursorSeqno(cursor) == PutVarint64(cursor.seqno)

PutCursors(cursors) ==
  PutVarint64(Len(cursors)) \o Concat(Map(CursorSource, cursors))
    \o Concat(Map(CursorSeqno, cursors))

CursorsOf(sources, seqnos) ==
  IF sources.ok /\ seqnos.ok
  THEN Read([i \in DOMAIN sources.v |->
               [source |-> sources.v[i], seqno |-> seqnos.v[i]]],
            seqnos.in)
  ELSE ReadFailed

CursorSeqnos(num_cursors, sources) ==
  CursorsOf(sources, GetList(GetVarint64, sources.in, num_cursors))

CursorSources(num_cursors) ==
  CursorSeqnos(num_cursors.v,
               GetList(GetLengthPrefixedSlice, num_cursors.in, num_cursors.v))

\* The cursors that follow their count num_cursors; uncounted is the value
\* the field has when the count is not there.
CountedCursors(p, name, num_cursors, uncounted) ==
  IF num_cursors.ok THEN FieldRead(p, name, CursorSources(num_cursors))
  ELSE WithField(p, name, uncounted)

\* Old message format: start_seqno on the empty source.
LegacyCursor(p) == <<[source |-> <<>>, seqno |-> p.msg.start_seqno]>>

StartCursors(p) ==
  IF p.ok
  THEN WithoutField(CountedCursors(p, "start_", GetVarint64(p.in),
                                   LegacyCursor(p)),
                    "start_seqno")
  ELSE BadSlice

MessageSubscribe_Serialize(m) ==
  Message_Serialize(m) \o PutTopicID(m.namespace_id_, m.topic_name_)
    \o (IF Len(m.start_) >= 1 THEN PutVarint64(m.start_[1].seqno)
        ELSE PutVarint64(0))
    \o EncodeSubscriptionID(m.sub_id_) \o PutCursors(m.start_)

MessageSubscribe_DeSerialize(in) ==
  Status(StartCursors(Field(Field(TopicField(Message_DeSerialize(in),
    "namespace_id_", "topic_name_"),
    "start_seqno", GetVarint64),
    "sub_id_", DecodeSubscriptionID)))

MessageUnsubscribe_Serialize(m) ==
  Message_Serialize(m) \o EncodeSubscriptionID(m.sub_id_)
    \o PutFixedEnum8(m.reason_) \o PutTopicID(m.namespace_id_, m.topic_name_)

MessageUnsubscribe_DeSerialize(in) ==
  Status(OptionalTopicField(Field(Field(Message_DeSerialize(in),
    "sub_id_", DecodeSubscriptionID),
    "reason_", GetFixedEnum8),
    "namespace_id_", "topic_name_"))

\* MessageDeliver: the seqno travels as its difference from the previous one.
MessageDeliver_Serialize(m) ==
  Message_Serialize(m) \o EncodeSubscriptionID(m.sub_id_)
    \o PutVarint64(m.seqno_prev_) \o PutVarint64(m.seqno_ - m.seqno_prev_)

SeqnoOf_Difference(seqno_prev_, seqno_diff) == seqno_diff

\* seqno_ = seqno_prev_ + seqno_diff
SeqnoOf(seqno_prev_, seqno_diff) == seqno_prev_ + seqno_diff

DeliverSeqno(p) ==
  IF p.ok
  THEN WithoutField(WithField(p, "seqno_",
                              SeqnoOf(p.msg.seqno_prev_, p.msg.seqno_diff)),
                    "seqno_diff")
  ELSE BadSlice

MessageDeliver_DeSerialize(in) ==
  DeliverSeqno(Field(Field(Field(Message_DeSerialize(in),
    "sub_id_", DecodeSubscriptionID),
    "seqno_prev_", GetVarint64),
    "seqno_diff", GetVarint64))

MessageDeliverGap_Serialize(m) ==
  MessageDeliver_Serialize(m) \o PutFixedEnum8(m.gap_type_)
    \o PutTopicID(m.namespace_id_, m.topic_)
    \o PutLengthPrefixedSlice(m.source_)

MessageDeliverGap_DeSerialize(in) ==
  Status(OptionalField(OptionalTopicField(Field(MessageDeliver_DeSerialize(in),
    "gap_type_", GetFixedEnum8),
    "namespace_id_", "topic_"),
    "source_", GetLengthPrefixedSlice, <<>>))

MessageDeliverData_Serialize(m) ==
  MessageDeliver_Serialize(m) \o PutLengthPrefixedSlice(m.message_id_)
    \o PutLengthPrefixedSlice(m.payload_)
    \o PutTopicID(m.namespace_id_, m.topic_)
    \o PutLengthPrefixedSlice(m.source_)

MessageDeliverData_DeSerialize(in) ==
  Status(OptionalField(OptionalTopicField(Field(Field(
    MessageDeliver_DeSerialize(in),
    "message_id_", GetMsgId),
    "payload_", GetLengthPrefixedSlice),
    "namespace_id_", "topic_"),
    "source_", GetLengthPrefixedSlice, <<>>))

PutSubMessage(msg) == PutLengthPrefixedSlice(MessageDeliverData_Serialize(msg))

\* The message DeSerialize built from a length-prefixed slice, with the input
\* that is left after the slice.
SubMessage(msg, rest) ==
  IF msg = InvalidArgument THEN ReadFailed ELSE Read(msg, rest)

SubMessageOf(one) ==
  IF one.ok THEN SubMessage(MessageDeliverData_DeSerialize(one.v), one.in)
  ELSE ReadFailed

GetSubMessage(in) == SubMessageOf(GetLengthPrefixedSlice(in))

GetSubMessages(in) == GetCounted(GetSubMessage, GetVarint64(in))

MessageDeliverBatch_Serialize(m) ==
  Message_Serialize(m) \o PutVarint64(Len(m.messages_))
    \o Concat(Map(PutSubMessage, m.messages_))

MessageDeliverBatch_DeSerialize(in) ==
  Status(Field(Message_DeSerialize(in), "messages_", GetSubMessages))

\* duration_cast<milliseconds>(timestamp_.time_since_epoch()).count()
SourceMs(timestamp_) == timestamp_ \div TicksPerMs

\* Clock::time_point(Clock::duration(std::chrono::milliseconds(source_ms)))
TimePoint(source_ms) == source_ms * TicksPerMs

TimePointOf(source_ms) ==
  IF source_ms.ok THEN Read(TimePoint(source_ms.v), source_ms.in)
  ELSE ReadFailed

GetTimePoint(in) == TimePointOf(GetFixed64(in))

\* while (GetVarint32(in, &shard)) healthy_streams_.push_back(shard)
GetHealthyStreams(in) == Read(GetWhile(GetVarint32, in), <<>>)

\* A heartbeat that ends after the tenant is one of an older format: its
\* timestamp and its streams stay as constructed.
HeartbeatBody(p) ==
  IF p.ok /\ p.in = <<>>
  THEN WithField(WithField(p, "timestamp_", 0), "healthy_streams_", <<>>)
  ELSE Field(Field(p,
         "timestamp_", GetTimePoint),
         "healthy_streams_", GetHealthyStreams)

MessageHeartbeat_Serialize(m) ==
  PutFixedEnum8(m.type_) \o PutFixed16(m.tenantid_)
    \o PutFixed64(SourceMs(m.timestamp_))
    \o Concat(Map(PutVarint32, m.healthy_streams_))

MessageHeartbeat_DeSerialize(in) ==
  Status(HeartbeatBody(Field(Field(Slice(in),
    "type_", GetFixedEnum8),
    "tenantid_", GetFixed16)))

PutShards(shards) ==
  PutVarint64(Len(shards)) \o Concat(Map(PutVarint32, shards))

GetShards(in) == GetCounted(GetVarint32, GetVarint64(in))

MessageHeartbeatDelta_Serialize(m) ==
  PutFixedEnum8(m.type_) \o PutFixed16(m.tenantid_)
    \o PutFixed64(SourceMs(m.timestamp_))
    \o PutShards(m.added_healthy_) \o PutShards(m.removed_healthy_)

MessageHeartbeatDelta_DeSerialize(in) ==
  Status(Field(Field(Field(Field(Field(Slice(in),
    "type_", GetFixedEnum8),
    "tenantid_", GetFixed16),
    "timestamp_", GetTimePoint),
    "added_healthy_", GetShards),
    "removed_healthy_", GetShards))

MessageBacklogQuery_Serialize(m) ==
  PutFixedEnum8(m.type_) \o PutFixed16(m.tenantid_)
    \o EncodeSubscriptionID(m.sub_id_)
    \o PutTopicID(m.namespace_id_, m.topic_)
    \o PutLengthPrefixedSlice(m.source_) \o PutVarint64(m.seqno_)

MessageBacklogQuery_DeSerialize(in) ==
  Status(Field(Field(TopicField(Field(Field(Field(Slice(in),
    "type_", GetFixedEnum8),
    "tenantid_", GetFixed16),
    "sub_id_", DecodeSubscriptionID),
    "namespace_id_", "topic_"),
    "source_", GetLengthPrefixedSlice),
    "seqno_", GetVarint64))

MessageBacklogFill_Serialize(m) ==
  PutFixedEnum8(m.type_) \o PutFixed16(m.tenantid_)
    \o PutTopicID(m.namespace_id_, m.topic_)
    \o PutLengthPrefixedSlice(m.source_)
    \o PutVarint64(m.prev_seqno_) \o PutVarint64(m.next_seqno_)
    \o PutFixedEnum8(m.result_) \o PutLengthPrefixedSlice(m.info_)

MessageBacklogFill_DeSerialize(in) ==
  Status(OptionalField(Field(Field(Field(Field(TopicField(Field(Field(
    Slice(in),
    "type_", GetFixedEnum8),
    "tenantid_", GetFixed16),
    "namespace_id_", "topic_"),
    "source_", GetLengthPrefixedSlice),
    "prev_seqno_", GetVarint64),
    "next_seqno_", GetVarint64),
    "result_", GetFixedEnum8),
    "info_", GetLengthPrefixedSlice, <<>>))

\* The properties of an Introduction are an unordered_map from key to value:
\* Serialize walks it in the order the map keeps, DeSerialize emplaces the
\* pairs one by one, and emplace leaves a key that is there alone.
RECURSIVE Walk(_)
Walk(properties) ==
  IF DOMAIN properties = {} THEN <<>>
  ELSE LET key == CHOOSE k \in DOMAIN properties : TRUE IN
         <<<<key, properties[key]>>>>
           \o Walk([k \in DOMAIN properties \ {key} |-> properties[k]])

PutProperty(info) ==
  PutLengthPrefixedSlice(info[1]) \o PutLengthPrefixedSlice(info[2])

PutProperties(properties) ==
  PutVarint64(Cardinality(DOMAIN properties))
    \o Concat(Map(PutProperty, Walk(properties)))

GetProperty(in) ==
  AsRead(Field(Field(Slice(in),
    "key", GetLengthPrefixedSlice),
    "value", GetLengthPrefixedSlice))

RECURSIVE Emplace(_, _)
Emplace(properties, infos) ==
  IF infos = <<>> THEN properties
  ELSE Emplace(IF Head(infos).key \in DOMAIN properties THEN properties
               ELSE properties @@ (Head(infos).key :> Head(infos).value),
               Tail(infos))

PropertiesOf(infos) ==
  IF infos.ok THEN Read(Emplace(<<>>, infos.v), infos.in) ELSE ReadFailed

GetProperties(in) == PropertiesOf(GetCounted(GetProperty, GetVarint64(in)))

MessageIntroduction_Serialize(m) ==
  Message_Serialize(m) \o PutProperties(m.stream_properties_)
    \o PutProperties(m.client_properties_)

MessageIntroduction_DeSerialize(in) ==
  Status(Field(Field(Message_DeSerialize(in),
    "stream_properties_", GetProperties),
    "client_properties_", GetProperties))

\* The cursors of a SubAck that has none counted stay as constructed.
AckCursors(p) ==
  IF p.ok THEN CountedCursors(p, "cursors_", GetVarint64(p.in), <<>>)
  ELSE BadSlice

MessageSubAck_Serialize(m) ==
  Message_Serialize(m) \o PutTopicID(m.namespace_id_, m.topic_)
    \o EncodeSubscriptionID(m.sub_id_) \o PutCursors(m.cursors_)

MessageSubAck_DeSerialize(in) ==
  Status(AckCursors(Field(TopicField(Message_DeSerialize(in),
    "namespace_id_", "topic_"),
    "sub_id_", DecodeSubscriptionID)))

\* The classes of the messages, by the type each is constructed with.
DataTypes == {MessageType("publish"), MessageType("deliver")}

\* The virtual Serialize of the message's class.
SerializeToString(m) ==
  CASE m.type_ = MessageType("ping") -> MessagePing_Serialize(m)
    [] m.type_ \in DataTypes -> MessageData_Serialize(m)
    [] m.type_ = MessageType("data_ack") -> MessageDataAck_Serialize(m)
    [] m.type_ = MessageType("gap") -> MessageGap_Serialize(m)
    [] m.type_ = MessageType("goodbye") -> MessageGoodbye_Serialize(m)
    [] m.type_ = MessageType("subscribe") -> MessageSubscribe_Serialize(m)
    [] m.type_ = MessageType("unsubscribe") -> MessageUnsubscribe_Serialize(m)
    [] m.type_ = MessageType("deliver_gap") -> MessageDeliverGap_Serialize(m)
    [] m.type_ = MessageType("deliver_data") ->
         MessageDeliverData_Serialize(m)
    [] m.type_ = MessageType("find_tail_seqno") ->
         MessageFindTailSeqno_Serialize(m)
    [] m.type_ = MessageType("tail_seqno") -> MessageTailSeqno_Serialize(m)
    [] m.type_ = MessageType("deliver_batch") ->
         MessageDeliverBatch_Serialize(m)
    [] m.type_ = MessageType("heartbeat") -> MessageHeartbeat_Serialize(m)
    [] m.type_ = MessageType("heartbeat_delta") ->
         MessageHeartbeatDelta_Serialize(m)
    [] m.type_ = MessageType("backlog_query") ->
         MessageBacklogQuery_Serialize(m)
    [] m.type_ = MessageType("backlog_fill") ->
         MessageBacklogFill_Serialize(m)
    [] m.type_ = MessageType("introduction") ->
         MessageIntroduction_Serialize(m)
    [] m.type_ = MessageType("deliver_sub_ack") -> MessageSubAck_Serialize(m)

nullptr == [null |-> TRUE]

\* Message::ReadMessageType: sizeof(MessageType) is one byte.
ReadMessageType(slice) ==
  IF Len(slice) < 1 THEN MessageType("invalid") ELSE slice[1]

DeSerializeAs(mtype, in) ==
  CASE mtype = MessageType("ping") -> MessagePing_DeSerialize(in)
    [] mtype \in DataTypes -> MessageData_DeSerialize(in)
    [] mtype = MessageType("data_ack") -> MessageDataAck_DeSerialize(in)
    [] mtype = MessageType("gap") -> MessageGap_DeSerialize(in)
    [] mtype = MessageType("goodbye") -> MessageGoodbye_DeSerialize(in)
    [] mtype = MessageType("subscribe") -> MessageSubscribe_DeSerialize(in)
    [] mtype = MessageType("unsubscribe") -> MessageUnsubscribe_DeSerialize(in)
    [] mtype = MessageType("deliver_gap") -> MessageDeliverGap_DeSerialize(in)
    [] mtype = MessageType("deliver_data") ->
         MessageDeliverData_DeSerialize(in)
    [] mtype = MessageType("find_tail_seqno") ->
         MessageFindTailSeqno_DeSerialize(in)
    [] mtype = MessageType("tail_seqno") -> MessageTailSeqno_DeSerialize(in)
    [] mtype = MessageType("deliver_batch") ->
         MessageDeliverBatch_DeSerialize(in)
    [] mtype = MessageType("heartbeat") -> MessageHeartbeat_DeSerialize(in)
    [] mtype = MessageType("heartbeat_delta") ->
         MessageHeartbeatDelta_DeSerialize(in)
    [] mtype = MessageType("backlog_query") ->
         MessageBacklogQuery_DeSerialize(in)
    [] mtype = MessageType("backlog_fill") ->
         MessageBacklogFill_DeSerialize(in)
    [] mtype = MessageType("introduction") ->
         MessageIntroduction_DeSerialize(in)
    [] mtype = MessageType("deliver_sub_ack") -> MessageSubAck_DeSerialize(in)
    [] OTHER -> InvalidArgument

\* Message::CreateNewInstance: the message of the class the type names, or
\* nullptr when the type is unknown or DeSerialize fails.
CreateNewInstance(in) ==
  LET msg == DeSerializeAs(ReadMessageType(in), in) IN
    IF msg = InvalidArgument THEN nullptr ELSE msg

\* Message::Copy
Copy(msg) == CreateNewInstance(SerializeToString(msg))

\* ---- The well-formed messages the model serialises ----
SeqsUpTo(S, n) == UNION {[1..k -> S] : k \in 0..n}

\* Tenant IDs of one and of two significant bytes.
CodecTenants == {0, 258}

CodecStrings == {<<>>, <<97, 0>>}

\* Sequence numbers and subscription IDs whose varints are one, two and
\* three bytes long.
CodecSeqnos == {0, 127, 128, 16384}

CodecSubIds == {1, 300}

CodecMsgIds == {[i \in 1..MsgIdSize |-> 0], [i \in 1..MsgIdSize |-> 255 - i]}

CodecEnums == {0, 1}

\* Timestamps in Clock ticks, on and off a whole millisecond.
CodecTimestamps == 0..(2 * TicksPerMs - 1)

CodecShards == {1, 200, 70000}

\* Shard lists are strictly ascending.
ShardLists ==
  {s \in SeqsUpTo(CodecShards, MaxListLen) :
     \A i \in 1..(Len(s) - 1) : s[i] < s[i + 1]}

Cursors == [source : CodecStrings, seqno : {0, 16384}]

Acks == [status : CodecEnums, msgid : CodecMsgIds, seqno : {0, 128}]

Properties == UNION {[K -> CodecStrings] : K \in SUBSET {<<97>>, <<98, 99>>}}

\* seqno_ >= seqno_prev_ (RS_ASSERT in MessageDeliver::Serialize)
Deliveries ==
  {d \in [seqno_prev_ : CodecSeqnos, seqno_ : CodecSeqnos] :
     d.seqno_ >= d.seqno_prev_}

PingMessages ==
  [type_ : {MessageType("ping")}, tenantid_ : CodecTenants,
   pingtype_ : CodecEnums, cookie_ : CodecStrings]

DataMessages ==
  [type_ : DataTypes, tenantid_ : CodecTenants, seqno_prev_ : CodecSeqnos,
   seqno_ : CodecSeqnos, namespaceid_ : CodecStrings,
   topic_name_ : CodecStrings, msgid_ : CodecMsgIds, payload_ : CodecStrings]

DataAckMessages ==
  [type_ : {MessageType("data_ack")}, tenantid_ : CodecTenants,
   acks_ : SeqsUpTo(Acks, MaxListLen)]

GapMessages ==
  [type_ : {MessageType("gap")}, tenantid_ : CodecTenants,
   namespace_id_ : CodecStrings, topic_name_ : CodecStrings,
   gap_type_ : CodecEnums, gap_from_ : CodecSeqnos, gap_to_ : CodecSeqnos]

GoodbyeMessages ==
  [type_ : {MessageType("goodbye")}, tenantid_ : CodecTenants,
   code_ : CodecEnums, origin_type_ : CodecEnums]

FindTailSeqnoMessages ==
  [type_ : {MessageType("find_tail_seqno")}, tenantid_ : CodecTenants,
   namespace_id_ : CodecStrings, topic_name_ : CodecStrings]

TailSeqnoMessages ==
  [type_ : {MessageType("tail_seqno")}, tenantid_ : CodecTenants,
   namespace_id_ : CodecStrings, topic_name_ : CodecStrings,
   seqno_ : CodecSeqnos]

SubscribeMessages ==
  [type_ : {MessageType("subscribe")}, tenantid_ : CodecTenants,
   namespace_id_ : CodecStrings, topic_name_ : CodecStrings,
   sub_id_ : CodecSubIds, start_ : SeqsUpTo(Cursors, MaxListLen)]

UnsubscribeMessages ==
  [type_ : {MessageType("unsubscribe")}, tenantid_ : CodecTenants,
   sub_id_ : CodecSubIds, reason_ : CodecEnums,
   namespace_id_ : CodecStrings, topic_name_ : CodecStrings]

DeliverGapMessages ==
  {[type_ |-> MessageType("deliver_gap"), tenantid_ |-> t, sub_id_ |-> s,
    seqno_prev_ |-> d.seqno_prev_, seqno_ |-> d.seqno_, gap_type_ |-> g,
    namespace_id_ |-> n, topic_ |-> n, source_ |-> src] :
     t \in CodecTenants, s \in CodecSubIds, d \in Deliveries,
     g \in CodecEnums, n \in CodecStrings, src \in CodecStrings}

DeliverDataMessages ==
  {[type_ |-> MessageType("deliver_data"), tenantid_ |-> t, sub_id_ |-> s,
    seqno_prev_ |-> d.seqno_prev_, seqno_ |-> d.seqno_, message_id_ |-> id,
    payload_ |-> p, namespace_id_ |-> n, topic_ |-> n, source_ |-> src] :
     t \in CodecTenants, s \in CodecSubIds, d \in Deliveries,
     id \in CodecMsgIds, p \in CodecStrings, n \in CodecStrings,
     src \in CodecStrings}

\* The messages of a batch are on one subscription of one tenant.
BatchedMessages ==
  {m \in DeliverDataMessages :
     /\ m.tenantid_ = 258 /\ m.sub_id_ = 300 /\ m.source_ = <<>>
     /\ m.payload_ # <<>> /\ m.namespace_id_ # <<>>
     /\ m.seqno_prev_ = 127 /\ m.message_id_[1] = 0}

DeliverBatchMessages ==
  [type_ : {MessageType("deliver_batch")}, tenantid_ : CodecTenants,
   messages_ : SeqsUpTo(BatchedMessages, MaxListLen)]

HeartbeatMessages ==
  [type_ : {MessageType("heartbeat")}, tenantid_ : CodecTenants,
   timestamp_ : CodecTimestamps, healthy_streams_ : ShardLists]

HeartbeatDeltaMessages ==
  [type_ : {MessageType("heartbeat_delta")}, tenantid_ : CodecTenants,
   timestamp_ : CodecTimestamps, added_healthy_ : ShardLists,
   removed_healthy_ : ShardLists]

BacklogQueryMessages ==
  [type_ : {MessageType("backlog_query")}, tenantid_ : CodecTenants,
   sub_id_ : CodecSubIds, namespace_id_ : CodecStrings,
   topic_ : CodecStrings, source_ : CodecStrings, seqno_ : CodecSeqnos]

BacklogFillMessages ==
  [type_ : {MessageType("backlog_fill")}, tenantid_ : CodecTenants,
   namespace_id_ : CodecStrings, topic_ : CodecStrings,
   source_ : CodecStrings, prev_seqno_ : {0, 128}, next_seqno_ : {127, 16384},
   result_ : CodecEnums, info_ : CodecStrings]

IntroductionMessages ==
  [type_ : {MessageType("introduction")}, tenantid_ : CodecTenants,
   stream_properties_ : Properties, client_properties_ : Properties]

SubAckMessages ==
  [type_ : {MessageType("deliver_sub_ack")}, tenantid_ : CodecTenants,
   namespace_id_ : CodecStrings, topic_ : CodecStrings,
   sub_id_ : CodecSubIds, cursors_ : SeqsUpTo(Cursors, MaxListLen)]

WellFormedMessages ==
  UNION {PingMessages, DataMessages, DataAckMessages, GapMessages,
         GoodbyeMessages, FindTailSeqnoMessages, TailSeqnoMessages,
         SubscribeMessages, UnsubscribeMessages, DeliverGapMessages,
         DeliverDataMessages, DeliverBatchMessages, HeartbeatMessages,
         HeartbeatDeltaMessages, BacklogQueryMessages, BacklogFillMessages,
         IntroductionMessages, SubAckMessages}

\* ---- The steps of a message over the wire ----
InitCodec ==
  /\ codec_pc = "idle"
  /\ codec_msg = nullptr
  /\ codec_serial = <<>>
  /\ codec_out = nullptr

\* The sender serialises the message m.
SendMessage(m) ==
  /\ codec_pc = "idle"
  /\ codec_pc' = "serialized"
  /\ codec_msg' = m
  /\ codec_serial' = SerializeToString(m)
  /\ UNCHANGED codec_out

\* The receiver builds the message the bytes hold.
ReceiveMessage ==
  /\ codec_pc = "serialized"
  /\ codec_pc' = "deserialized"
  /\ codec_out' = CreateNewInstance(codec_serial)
  /\ UNCHANGED <<codec_msg, codec_serial>>

\* Message::Copy of the message m.
CopyMessage(m) ==
  /\ codec_pc = "idle"
  /\ codec_pc' = "deserialized"
  /\ codec_msg' = m
  /\ codec_serial' = SerializeToString(m)
  /\ codec_out' = Copy(m)

\* Both messages are released.
ReleaseMessage ==
  /\ codec_pc = "deserialized"
  /\ codec_pc' = "idle"
  /\ codec_msg' = nullptr
  /\ codec_serial' = <<>>
  /\ codec_out' = nullptr

NextCodec ==
  \/ \E m \in WellFormedMessages : SendMessage(m) /\ CodecFrame
  \/ ReceiveMessage /\ CodecFrame
  \/ \E m \in WellFormedMessages : CopyMessage(m) /\ CodecFrame
  \/ ReleaseMessage /\ CodecFrame

(***************************************************************************)
(* The control tower's TopicManager (src/controltower/topic.h) and         *)
(* ControlRoom (src/controltower/room.cc).                                 *)
(***************************************************************************)
RoomTopics == {"a", "b"}
HostIds == {"h1", "h2"}
HostNumbers == 0..(Cardinality(HostIds) - 1)
MetaTypes == {"Request", "Response"}
MetadataTypes == {"mSubscribe", "mUnSubscribe", "mNotinitialized"}

\* The log router: the log of each topic.
GetLogID(topic) == IF topic = "a" THEN 1 ELSE 2

\* The seqnos the room's subscribers start at.
RoomStarts == {1}

TopicSubscription(hostnum, seqno) == [hostnum_ |-> hostnum, seqno_ |-> seqno]

\* The host numbers subscribed on a TopicList.
Subscribers(list) == {list[i].hostnum_ : i \in DOMAIN list}

\* Mutant: only the first subscriber of a topic counts as new.
IsNewSubscriber_FirstOnly(list, subscriber) == list = <<>>

\* AddSubscriber: @return true iff new subscriber.
IsNewSubscriber(list, subscriber) == subscriber \notin Subscribers(list)

\* The TopicList after AddSubscriber: a subscriber that is there already
\* gets the new start, a new one goes to the end.
AddedTo(list, start, subscriber) ==
  IF subscriber \in Subscribers(list)
    THEN [i \in DOMAIN list |->
            IF list[i].hostnum_ = subscriber
              THEN TopicSubscription(subscriber, start) ELSE list[i]]
    ELSE Append(list, TopicSubscription(subscriber, start))

Keeps(subscriber, list, i) == list[i].hostnum_ # subscriber

RECURSIVE RemovedBelow(_, _, _)
RemovedBelow(list, subscriber, n) ==
  IF n = 0 THEN <<>>
  ELSE IF Keeps(subscriber, list, n)
         THEN Append(RemovedBelow(list, subscriber, n - 1), list[n])
         ELSE RemovedBelow(list, subscriber, n - 1)

\* The TopicList after RemoveSubscriber.
RemovedFrom(list, subscriber) == RemovedBelow(list, subscriber, Len(list))

\* Mutant: true whenever the topic has no subscribers after the call.
NoneLeft_Afterwards(list, subscriber) == RemovedFrom(list, subscriber) = <<>>

\* RemoveSubscriber: @return true iff no subscribers left on this topic,
\* the subscriber having been one.
NoneLeft(list, subscriber) ==
  /\ subscriber \in Subscribers(list)
  /\ RemovedFrom(list, subscriber) = <<>>

NoCall == [op |-> "none", topic |-> "", subscriber |-> 0, returned |-> FALSE]

Call(op, topic, subscriber, returned) ==
  [op |-> op, topic |-> topic, subscriber |-> subscriber,
   returned |-> returned]

\* HostMap: the number of a host is its position in the map, from 0.
HostNumberOf(map, origin) ==
  IF \E i \in DOMAIN map : map[i] = origin
    THEN (CHOOSE i \in DOMAIN map : map[i] = origin) - 1
    ELSE -1

\* HostMap::Lookup(HostNumber): nullptr for a number that was never assigned.
HostIdOf(map, hostnum) ==
  IF hostnum + 1 \in DOMAIN map THEN map[hostnum + 1] ELSE nullptr

\* if (hostnum == -1) hostnum = ct->GetHostMap().Insert(origin)
HostMapWith(map, origin) ==
  IF HostNumberOf(map, origin) = -1 THEN Append(map, origin) ELSE map

NoMessage ==
  [op |-> "none", metatype |-> "", topic |-> "", topic_type |-> "",
   seqno |-> 0, logid |-> 0, origin |-> ""]

MessageMetadata(metatype, topic, topic_type, seqno, origin) ==
  [op |-> "ProcessMetadata", metatype |-> metatype, topic |-> topic,
   topic_type |-> topic_type, seqno |-> seqno, logid |-> 0,
   origin |-> origin]

RoomData(topic, seqno, logid) ==
  [op |-> "ProcessData", metatype |-> "", topic |-> topic,
   topic_type |-> "", seqno |-> seqno, logid |-> logid, origin |-> ""]

\* One call of the client's Send: the host, the message, the TopicList of
\* the message's topic when Send was called, and whether Send succeeded.
Sent(to, msg, list, ok) == [to |-> to, msg |-> msg, list |-> list, ok |-> ok]

InitRoom ==
  /\ topic_map_ = [t \in RoomTopics |-> <<>>]
  /\ host_map = <<>>
  /\ last_read = [l \in LogIDs |-> 0]
  /\ room_sent = <<>>
  /\ room_last = NoMessage
  /\ tm_last = NoCall

\* TopicManager::AddSubscriber
AddSubscriber(topic, start, subscriber) ==
  /\ topic_map_' = [topic_map_ EXCEPT ![topic] = AddedTo(@, start, subscriber)]
  /\ tm_last' = Call("AddSubscriber", topic, subscriber,
                     IsNewSubscriber(topic_map_[topic], subscriber))
  /\ UNCHANGED <<host_map, last_read, room_sent, room_last>>

\* TopicManager::RemoveSubscriber
RemoveSubscriber(topic, subscriber) ==
  /\ topic_map_' = [topic_map_ EXCEPT ![topic] = RemovedFrom(@, subscriber)]
  /\ tm_last' = Call("RemoveSubscriber", topic, subscriber,
                     NoneLeft(topic_map_[topic], subscriber))
  /\ UNCHANGED <<host_map, last_read, room_sent, room_last>>

NextTopicManager ==
  \/ \E t \in RoomTopics, start \in LogSeqnos, h \in HostNumbers :
       AddSubscriber(t, start, h) /\ RoomFrame
  \/ \E t \in RoomTopics, h \in HostNumbers :
       RemoveSubscriber(t, h) /\ RoomFrame

\* Mutant: an unsubscribe leaves the subscriber on the topic.
Remembered_SubscribeOnly(list, topic_type, seqno, hostnum) ==
  IF topic_type = "mSubscribe" THEN AddedTo(list, seqno, hostnum) ELSE list

\* "Remember this subscription request": the TopicList of the request's
\* topic after it.
Remembered(list, topic_type, seqno, hostnum) ==
  IF topic_type = "mSubscribe" THEN AddedTo(list, seqno, hostnum)
  ELSE IF topic_type = "mUnSubscribe" THEN RemovedFrom(list, hostnum)
  ELSE list

\* ControlRoom::ProcessMetadata
ProcessMetadata(metatype, topic, topic_type, seqno, origin, send_ok) ==
  /\ room_last' = MessageMetadata(metatype, topic, topic_type, seqno, origin)
  /\ IF metatype # "Request"
       THEN /\ room_sent' = <<>>
            /\ UNCHANGED <<topic_map_, host_map>>
       ELSE /\ host_map' = HostMapWith(host_map, origin)
            /\ topic_map_' =
                 [topic_map_ EXCEPT ![topic] =
                    Remembered(@, topic_type, seqno,
                               HostNumberOf(HostMapWith(host_map, origin),
                                            origin))]
            /\ room_sent' =
                 <<Sent(origin,
                        MessageMetadata("Response", topic, topic_type, seqno,
                                        origin),
                        Remembered(topic_map_[topic], topic_type, seqno,
                                   HostNumberOf(HostMapWith(host_map, origin),
                                                origin)),
                        send_ok)>>
  /\ UNCHANGED <<last_read, tm_last>>

\* Mutant: the loop over the subscribers ends at the first Send that fails.
Forwards_UntilFailure(list, map, msg, failed) ==
  [i \in {j \in DOMAIN list :
            \A k \in 1..(j - 1) : HostIdOf(map, list[k].hostnum_) \notin failed}
     |-> Sent(HostIdOf(map, list[i].hostnum_), msg, list,
              HostIdOf(map, list[i].hostnum_) \notin failed)]

\* The Sends of ProcessData, one for each element of the TopicList; failed:
\* the hosts the client cannot send to.
Forwards(list, map, msg, failed) ==
  [i \in DOMAIN list |->
     Sent(HostIdOf(map, list[i].hostnum_), msg, list,
          HostIdOf(map, list[i].hostnum_) \notin failed)]

\* ControlRoom::ProcessData
ProcessData(topic, seqno, logid, failed) ==
  /\ room_last' = RoomData(topic, seqno, logid)
  /\ room_sent' = Forwards(topic_map_[topic], host_map,
                           RoomData(topic, seqno, logid), failed)
  /\ last_read' = [last_read EXCEPT ![logid] = seqno]
  /\ UNCHANGED <<topic_map_, host_map, tm_last>>

\* The room's loop runs the commands it is sent, by the type of the message.
NextRoom ==
  \/ \E metatype \in MetaTypes, t \in RoomTopics, type \in MetadataTypes,
        seqno \in RoomStarts, origin \in HostIds, send_ok \in BOOLEAN :
       ProcessMetadata(metatype, t, type, seqno, origin, send_ok) /\ RoomFrame
  \/ \E t \in RoomTopics, seqno \in LogSeqnos, failed \in SUBSET HostIds :
       ProcessData(t, seqno, GetLogID(t), failed) /\ RoomFrame

(***************************************************************************)
(* RocketeerServer: the public calls and the workers' loops                *)
(* (src/engine/rocketeer_server.cc).                                       *)
(***************************************************************************)
WorkerIDs == {0, 1}

\* The thread of a worker's loop, and a thread of the application.
WorkerThread(worker_id) == IF worker_id = 0 THEN "worker0" ELSE "worker1"
Threads == {"app", "worker0", "worker1"}

ServerOps == {"Deliver", "Advance", "Terminate"}

\* The command a public call makes: the call of the worker's
\* CommunicationRocketeer it holds.
ExecuteCommand(op, worker_id, seqno) ==
  [op |-> op, worker_id |-> worker_id, seqno |-> seqno]

NoInbound == [has |-> FALSE, prev_seqno |-> 0]

ServerStep(op, thread, worker_id, returned, sent) ==
  [op |-> op, thread |-> thread, worker_id |-> worker_id,
   returned |-> returned, sent |-> sent]

InitRocketeerServer ==
  /\ rocketeers_ = [w \in WorkerIDs |-> NoInbound]
  /\ rs_queue = [w \in WorkerIDs |-> <<>>]
  /\ rs_last = ServerStep("none", "app", 0, TRUE, FALSE)

\* msg_loop_->SendCommand(command, worker_id).ok(): the worker's queue takes
\* the command unless it is full.
SendCommandOk(worker_id) == Len(rs_queue[worker_id]) < CommandQueueSize

\* Mutant: the call runs the worker's CommunicationRocketeer on the calling
\* thread.
ServerCall_OnCallingThread(op, thread, worker_id, seqno) ==
  /\ rocketeers_' =
       [rocketeers_ EXCEPT ![worker_id] =
          IF @.has /\ op = "Terminate" THEN [has |-> FALSE, prev_seqno |-> 0]
          ELSE IF @.has /\ @.prev_seqno < seqno
            THEN [@ EXCEPT !.prev_seqno = seqno]
          ELSE @]
  /\ rs_last' = [op |-> op, thread |-> thread, worker_id |-> worker_id,
                 returned |-> TRUE, sent |-> FALSE]
  /\ UNCHANGED rs_queue

\* RocketeerServer::Deliver, Advance and Terminate, called on any thread.
ServerCall(op, thread, worker_id, seqno) ==
  /\ rs_queue' =
       IF SendCommandOk(worker_id)
         THEN [rs_queue EXCEPT ![worker_id] =
                 Append(@, ExecuteCommand(op, worker_id, seqno))]
         ELSE rs_queue
  /\ rs_last' = ServerStep(op, thread, worker_id, SendCommandOk(worker_id),
                           FALSE)
  /\ UNCHANGED rocketeers_

\* CommunicationRocketeer::Deliver / Advance / Terminate on the worker's
\* subscription: whether a message is sent.
CommandSends(sub, c) ==
  /\ sub.has
  /\ c.op # "Terminate" => SeqnoAdvances(sub.prev_seqno, c.seqno)

\* The subscription after the command.
CommandLeaves(sub, c) ==
  IF ~CommandSends(sub, c) THEN sub
  ELSE IF c.op = "Terminate" THEN NoInbound
  ELSE [sub EXCEPT !.prev_seqno = c.seqno]

\* The worker's loop runs the next command of its queue on its own thread.
RunCommand(worker_id) ==
  /\ rs_queue[worker_id] # <<>>
  /\ rs_queue' = [rs_queue EXCEPT ![worker_id] = Tail(@)]
  /\ rocketeers_' =
       [rocketeers_ EXCEPT ![Head(rs_queue[worker_id]).worker_id] =
          CommandLeaves(@, Head(rs_queue[worker_id]))]
  /\ rs_last' =
       ServerStep("run", WorkerThread(worker_id), worker_id, TRUE,
                  CommandSends(
                    rocketeers_[Head(rs_queue[worker_id]).worker_id],
                    Head(rs_queue[worker_id])))

\* CreateCallback<MessageSubscribe>: the worker that received the message
\* hands it to its own CommunicationRocketeer.
ServerReceiveSubscribe(worker_id, start_seqno) ==
  /\ rocketeers_' =
       [rocketeers_ EXCEPT ![worker_id] =
          IF @.has THEN @
          ELSE [has |-> TRUE, prev_seqno |-> InitialPrevSeqno(start_seqno)]]
  /\ rs_last' = ServerStep("Receive", WorkerThread(worker_id), worker_id,
                           TRUE, FALSE)
  /\ UNCHANGED rs_queue

NextRocketeerServer ==
  \/ \E op \in ServerOps \ {"Terminate"}, thread \in Threads,
        w \in WorkerIDs, seqno \in Seqnos :
       ServerCall(op, thread, w, seqno) /\ RocketeerServerFrame
  \/ \E thread \in Threads, w \in WorkerIDs :
       ServerCall("Terminate", thread, w, 0) /\ RocketeerServerFrame
  \/ \E w \in WorkerIDs : RunCommand(w) /\ RocketeerServerFrame
  \/ \E w \in WorkerIDs, start \in Seqnos :
       ServerReceiveSubscribe(w, start) /\ RocketeerServerFrame

\* ---------------------------------------------------------------------------
\* MultiThreadedSubscriber (src/src/client/subscriber.h): public calls on any
\* thread, one subscriber and one command queue per worker.  The calls are
\* made with a null flow, so an overflow is reported by the returned value.
\* ---------------------------------------------------------------------------

\* Width of the low part of a handle, which holds the subscription ID seed.
HandleBits == 2

HandleSeeds == 1..(2 ^ HandleBits - 1)

ClientThreads == {"t1", "t2"}

\* The null handle.
NullHandle == 0

\* The high bits of a handle hold the worker, the low bits the seed.
HandleOf(worker_id, seed) == worker_id * (2 ^ HandleBits) + seed

\* MultiThreadedSubscriber::GetWorkerID: negative in case of error.
GetWorkerID(sub_handle) ==
  IF sub_handle \div (2 ^ HandleBits) \in WorkerIDs
    THEN sub_handle \div (2 ^ HandleBits)
    ELSE -1

\* Mutant: the handle is the seed alone.
CreateNewHandle_SeedOnly(worker_id, seed) ==
  seed

\* MultiThreadedSubscriber::CreateNewHandle for the seed it took from
\* next_sub_id_: a null handle if the seed does not fit.
CreateNewHandle(worker_id, seed) ==
  IF seed \in HandleSeeds THEN HandleOf(worker_id, seed) ELSE NullHandle

MtCommand(op, handle) == [op |-> op, handle |-> handle]

NoSubscribeCall == [pc |-> "idle", worker_id |-> 0, handle |-> NullHandle]

\* A step of the subscriber: for a public call the worker it addressed, the
\* handle it returned or was about, and whether it asks for a retry.
MtStep(op, worker_id, handle, retry) ==
  [op |-> op, worker_id |-> worker_id, handle |-> handle, retry |-> retry]

InitMultiThreaded ==
  /\ next_sub_id_ = 1
  /\ subscriber_queues_ = [w \in WorkerIDs |-> <<>>]
  /\ mt_subs = [w \in WorkerIDs |-> {}]
  /\ mt_acked = [w \in WorkerIDs |-> {}]
  /\ mt_calls = [t \in ClientThreads |-> NoSubscribeCall]
  /\ mt_returned = <<>>
  /\ mt_last = MtStep("none", 0, NullHandle, FALSE)

\* The worker's queue is full: TryWrite fails.
QueueOverflow(worker_id) ==
  Len(subscriber_queues_[worker_id]) >= CommandQueueSize

\* Mutant: the call reports success whether or not the command was written.
RetryNeeded_Never(worker_id) ==
  FALSE

\* The call has to be retried iff the command was not written.
RetryNeeded(worker_id) ==
  QueueOverflow(worker_id)

\* The queues after TryWrite of the command to the worker's queue.
TryWrite(worker_id, command) ==
  IF QueueOverflow(worker_id) THEN subscriber_queues_
  ELSE [subscriber_queues_ EXCEPT ![worker_id] = Append(@, command)]

\* Subscribe, first half: picks the worker and takes a fresh handle, the seed
\* being fetched from and advanced in next_sub_id_ atomically.
SubscribeBegin(thread, worker_id) ==
  /\ mt_calls[thread].pc = "idle"
  /\ next_sub_id_ \in HandleSeeds
  /\ next_sub_id_' = next_sub_id_ + 1
  /\ mt_calls' =
       [mt_calls EXCEPT ![thread] =
          [pc |-> "write", worker_id |-> worker_id,
           handle |-> CreateNewHandle(worker_id, next_sub_id_)]]
  /\ mt_last' = MtStep("begin", 0, NullHandle, FALSE)
  /\ UNCHANGED <<subscriber_queues_, mt_subs, mt_acked, mt_returned>>

\* Subscribe, second half: writes the command and returns the handle, or the
\* null handle if the command was not written.
SubscribeReturn(thread) ==
  /\ mt_calls[thread].pc = "write"
  /\ subscriber_queues_' =
       TryWrite(mt_calls[thread].worker_id,
                MtCommand("Subscribe", mt_calls[thread].handle))
  /\ mt_returned' =
       IF RetryNeeded(mt_calls[thread].worker_id) THEN mt_returned
       ELSE Append(mt_returned,
                   [handle |-> mt_calls[thread].handle,
                    worker_id |-> mt_calls[thread].worker_id])
  /\ mt_last' =
       MtStep("Subscribe", mt_calls[thread].worker_id,
              IF RetryNeeded(mt_calls[thread].worker_id) THEN NullHandle
              ELSE mt_calls[thread].handle,
              RetryNeeded(mt_calls[thread].worker_id))
  /\ mt_calls' = [mt_calls EXCEPT ![thread] = NoSubscribeCall]
  /\ UNCHANGED <<next_sub_id_, mt_subs, mt_acked>>

\* Unsubscribe and Acknowledge of a handle the application holds: the command
\* goes to the worker the handle names.
HandleCall(op, thread, sub_handle) ==
  /\ mt_calls[thread].pc = "idle"
  /\ GetWorkerID(sub_handle) \in WorkerIDs
  /\ subscriber_queues_' =
       TryWrite(GetWorkerID(sub_handle), MtCommand(op, sub_handle))
  /\ mt_last' = MtStep(op, GetWorkerID(sub_handle), sub_handle,
                       RetryNeeded(GetWorkerID(sub_handle)))
  /\ UNCHANGED <<next_sub_id_, mt_subs, mt_acked, mt_calls, mt_returned>>

\* The handles the application holds.
ReturnedHandles == {mt_returned[i].handle : i \in DOMAIN mt_returned}

\* The worker's loop runs the next command of its queue on its subscriber.
MtRunCommand(worker_id) ==
  /\ subscriber_queues_[worker_id] # <<>>
  /\ subscriber_queues_' = [subscriber_queues_ EXCEPT ![worker_id] = Tail(@)]
  /\ mt_subs' =
       [mt_subs EXCEPT ![worker_id] =
          IF Head(subscriber_queues_[worker_id]).op = "Subscribe"
            THEN @ \cup {Head(subscriber_queues_[worker_id]).handle}
          ELSE IF Head(subscriber_queues_[worker_id]).op = "Unsubscribe"
            THEN @ \ {Head(subscriber_queues_[worker_id]).handle}
          ELSE @]
  /\ mt_acked' =
       [mt_acked EXCEPT ![worker_id] =
          IF /\ Head(subscriber_queues_[worker_id]).op = "Acknowledge"
             /\ Head(subscriber_queues_[worker_id]).handle \in mt_subs[worker_id]
            THEN @ \cup {Head(subscriber_queues_[worker_id]).handle}
          ELSE @]
  /\ mt_last' = MtStep("run", 0, NullHandle, FALSE)
  /\ UNCHANGED <<next_sub_id_, mt_calls, mt_returned>>

NextMultiThreaded ==
  \/ \E thread \in ClientThreads, worker_id \in WorkerIDs :
       SubscribeBegin(thread, worker_id) /\ MultiThreadedFrame
  \/ \E thread \in ClientThreads :
       SubscribeReturn(thread) /\ MultiThreadedFrame
  \/ \E thread \in ClientThreads, sub_handle \in ReturnedHandles :
       HandleCall("Unsubscribe", thread, sub_handle) /\ MultiThreadedFrame
  \/ \E thread \in ClientThreads, sub_handle \in ReturnedHandles :
       HandleCall("Acknowledge", thread, sub_handle) /\ MultiThreadedFrame
  \/ \E worker_id \in WorkerIDs :
       MtRunCommand(worker_id) /\ MultiThreadedFrame

\* ---------------------------------------------------------------------------
\* Stream (src/src/messages/stream.cc) and the SocketEvent that carries it
\* (src/src/messages/socket_event.h).  A stream's socket_event_ is non-null
\* while the stream is open.  Every stream has its receiver set by its owner.
\* ---------------------------------------------------------------------------

\* Messages kept on the socket and per receiver.
MaxStreamMessages == 2

StreamMessageTypes == {"mDeliver", "mGoodbye"}

GoodbyeCodes == {"Graceful", "Error"}

ClosureReasons == {"Graceful", "Error"}

\* A message on a stream: its type, the code of a goodbye, and whether the
\* remote host or the closing socket made it.
StreamMessage(type, code, origin) ==
  [type |-> type, code |-> code, origin |-> origin]

RemoteMessages ==
  {StreamMessage("mDeliver", "none", "remote")} \cup
  {StreamMessage("mGoodbye", code, "remote") : code \in GoodbyeCodes}

\* SerializedOnStream: the message under the stream's ID.
SerializedOnStream(stream_id, type) == [stream_id |-> stream_id, type |-> type]

StreamStep(op, stream_id, was_open, returned, type) ==
  [op |-> op, stream_id |-> stream_id, was_open |-> was_open,
   returned |-> returned, type |-> type]

InitStream ==
  /\ socket_event_ = [s \in StreamIDs |-> "unopened"]
  /\ send_queue_ = <<>>
  /\ st_delivered = [s \in StreamIDs |-> <<>>]
  /\ closing_ = FALSE
  /\ st_faulted = FALSE
  /\ st_last = StreamStep("none", 1, FALSE, TRUE, "none")

\* SocketEvent::OpenStream, and the owner setting the receiver.
OpenStream(stream_id) ==
  /\ ~st_faulted
  /\ ~closing_
  /\ socket_event_[stream_id] = "unopened"
  /\ socket_event_' = [socket_event_ EXCEPT ![stream_id] = "open"]
  /\ st_last' = StreamStep("Open", stream_id, FALSE, TRUE, "none")
  /\ UNCHANGED <<send_queue_, st_delivered, closing_, st_faulted>>

\* Stream::Write(SharedTimestampedString&, bool).  has_room is what
\* SocketEvent::Write returns.  On a closed stream the call evaluates
\* socket_event_->GetLogger() with socket_event_ null: undefined behaviour,
\* which either faults or goes on to return true.
StreamWrite(stream_id, type, has_room, fault) ==
  /\ ~st_faulted
  /\ socket_event_[stream_id] # "unopened"
  /\ IF socket_event_[stream_id] = "closed"
       THEN /\ st_faulted' = fault
            /\ st_last' = StreamStep("Write", stream_id, FALSE,
                                     ~fault, type)
            /\ UNCHANGED <<socket_event_, send_queue_>>
       ELSE /\ Len(send_queue_) < MaxStreamMessages
            /\ send_queue_' =
                 Append(send_queue_, SerializedOnStream(stream_id, type))
            /\ socket_event_' =
                 IF type = "mGoodbye"
                   THEN [socket_event_ EXCEPT ![stream_id] = "closed"]
                   ELSE socket_event_
            /\ st_last' = StreamStep("Write", stream_id, TRUE, has_room, type)
            /\ UNCHANGED st_faulted
  /\ UNCHANGED <<st_delivered, closing_>>

\* The stream's state after Stream::Receive of the message.
ReceiveLeaves(state, message) ==
  IF state = "open" /\ message.type = "mGoodbye" THEN "closed" ELSE state

\* What the stream's receiver has been given after Stream::Receive.
ReceiveDelivers(state, given, message) ==
  IF state = "open" THEN Append(given, message) ELSE given

\* Stream::Receive of a message that arrived from the remote host.
StreamReceive(stream_id, message) ==
  /\ ~st_faulted
  /\ ~closing_
  /\ socket_event_[stream_id] # "unopened"
  /\ Len(st_delivered[stream_id]) < MaxStreamMessages
  /\ socket_event_' =
       [socket_event_ EXCEPT ![stream_id] = ReceiveLeaves(@, message)]
  /\ st_delivered' =
       [st_delivered EXCEPT ![stream_id] =
          ReceiveDelivers(socket_event_[stream_id], @, message)]
  /\ st_last' = StreamStep("Receive", stream_id,
                           socket_event_[stream_id] = "open", TRUE,
                           message.type)
  /\ UNCHANGED <<send_queue_, closing_, st_faulted>>

\* Mutant: every closure is reported as graceful.
ClosureCode_Graceful(reason) ==
  "Graceful"

\* The code of the goodbye a closing socket gives its streams.
ClosureCode(reason) ==
  IF reason = "Graceful" THEN "Graceful" ELSE "Error"

\* SocketEvent::Close: once; every stream of the connection receives a
\* goodbye made locally, and nothing is written to the socket.
SocketClose(reason) ==
  /\ ~st_faulted
  /\ closing_' = TRUE
  /\ socket_event_' =
       IF closing_ THEN socket_event_
       ELSE [s \in StreamIDs |->
               ReceiveLeaves(socket_event_[s],
                 StreamMessage("mGoodbye", ClosureCode(reason), "close"))]
  /\ st_delivered' =
       IF closing_ THEN st_delivered
       ELSE [s \in StreamIDs |->
               ReceiveDelivers(socket_event_[s], st_delivered[s],
                 StreamMessage("mGoodbye", ClosureCode(reason), "close"))]
  /\ st_last' = StreamStep("Close", 1, ~closing_, TRUE, reason)
  /\ UNCHANGED <<send_queue_, st_faulted>>

NextStream ==
  \/ \E stream_id \in StreamIDs :
       OpenStream(stream_id) /\ StreamFrame
  \/ \E stream_id \in StreamIDs, type \in StreamMessageTypes,
        has_room \in BOOLEAN, fault \in BOOLEAN :
       StreamWrite(stream_id, type, has_room, fault) /\ StreamFrame
  \/ \E stream_id \in StreamIDs, message \in RemoteMessages :
       StreamReceive(stream_id, message) /\ StreamFrame
  \/ \E reason \in ClosureReasons :
       SocketClose(reason) /\ StreamFrame

\* ---------------------------------------------------------------------------
\* A subscription with start seqno 0 against a log that is being published
\* to (src/src/test/integration_test.cc, SequenceNumberZero).  As in the test
\* the client waits for the ack of every publish and for the confirmation of
\* its subscription before its next call.
\* ---------------------------------------------------------------------------

\* Records published in one run.
MaxPublished == 4

InitSeqnoZero ==
  /\ sz_log = 0
  /\ sz_publishing = FALSE
  /\ sz_sub = "none"
  /\ sz_next = 0
  /\ sz_prev = 0
  /\ sz_received = <<>>
  /\ sz_before = 0
  /\ sz_queue = <<>>

\* The client is between calls.
ClientIdle == ~sz_publishing /\ sz_sub \in {"none", "confirmed"}

\* client->Publish.
SzPublish ==
  /\ ClientIdle
  /\ sz_log < MaxPublished
  /\ sz_publishing' = TRUE
  /\ UNCHANGED <<sz_log, sz_sub, sz_next, sz_prev, sz_received, sz_before,
                 sz_queue>>

\* The record is appended under the next seqno of the log and the publish is
\* acknowledged.
SzAppend ==
  /\ sz_publishing
  /\ sz_log' = sz_log + 1
  /\ sz_publishing' = FALSE
  /\ UNCHANGED <<sz_sub, sz_next, sz_prev, sz_received, sz_before, sz_queue>>

\* client->ListenTopics with SubscriptionPair(0, topic, ns).
SzSubscribe ==
  /\ ClientIdle
  /\ sz_sub = "none"
  /\ sz_sub' = "requested"
  /\ UNCHANGED <<sz_log, sz_publishing, sz_next, sz_prev, sz_received,
                 sz_before, sz_queue>>

\* Mutant: a subscription from seqno 0 reads the log from its first record.
FindLatestSeqno_First(records) ==
  1

\* LogTailer::FindLatestSeqno: the next seqno of the log.
FindLatestSeqno(records) ==
  records + 1

\* The server takes the subscription: the tail is found, the log is read
\* from it (StartReading sets the log's state to the start), and the
\* subscription's prev_seqno is set for start seqno 0.
SzStart ==
  /\ sz_sub = "requested"
  /\ sz_sub' = "started"
  /\ sz_next' = FindLatestSeqno(sz_log)
  /\ sz_prev' = InitialPrevSeqno(0)
  /\ UNCHANGED <<sz_log, sz_publishing, sz_received, sz_before, sz_queue>>

\* The confirmation reaches the client's subscription callback.
SzConfirm ==
  /\ sz_sub = "started"
  /\ sz_sub' = "confirmed"
  /\ sz_before' = sz_log
  /\ UNCHANGED <<sz_log, sz_publishing, sz_next, sz_prev, sz_received, sz_queue>>

\* The storage hands the tailer a record of the log, possibly one it handed
\* over before; the tailer forwards the one it expects to the room's queue,
\* and hands it back to the storage when the queue is full.
SzRecord(seqno) ==
  /\ sz_sub \in {"started", "confirmed"}
  /\ seqno <= sz_log
  /\ seqno <= sz_next
  /\ sz_next' =
       IF seqno = sz_next /\ Len(sz_queue) < QueueSize
         THEN NextExpected(seqno) ELSE sz_next
  /\ sz_queue' =
       IF seqno = sz_next /\ Len(sz_queue) < QueueSize
         THEN Append(sz_queue, seqno) ELSE sz_queue
  /\ UNCHANGED <<sz_log, sz_publishing, sz_sub, sz_prev, sz_received,
                 sz_before>>

\* The room takes the next record of its queue and the server delivers it on
\* the subscription if its seqno advances.
SzDeliver ==
  /\ sz_queue # <<>>
  /\ sz_queue' = Tail(sz_queue)
  /\ sz_prev' =
       IF SeqnoAdvances(sz_prev, Head(sz_queue))
         THEN Head(sz_queue) ELSE sz_prev
  /\ sz_received' =
       IF SeqnoAdvances(sz_prev, Head(sz_queue))
         THEN Append(sz_received, Head(sz_queue)) ELSE sz_received
  /\ UNCHANGED <<sz_log, sz_publishing, sz_sub, sz_next, sz_before>>

NextSeqnoZero ==
  \/ SzPublish /\ SeqnoZeroFrame
  \/ SzAppend /\ SeqnoZeroFrame
  \/ SzSubscribe /\ SeqnoZeroFrame
  \/ SzStart /\ SeqnoZeroFrame
  \/ SzConfirm /\ SeqnoZeroFrame
  \/ \E seqno \in 1..MaxPublished :
       SzRecord(seqno) /\ SeqnoZeroFrame
  \/ SzDeliver /\ SeqnoZeroFrame

\* ---------------------------------------------------------------------------
\* A storage that delivers the records and gaps of one open log in seqno
\* order from one thread, and calls the callback again for a record or gap
\* whose callback returned false.
\* ---------------------------------------------------------------------------

\* The log the storage delivers, and the reader that reads it.
InOrderLog == CHOOSE l \in LogIDs : \A m \in LogIDs : l <= m
InOrderReader == CHOOSE r \in ReaderIDs : \A q \in ReaderIDs : r <= q

\* What the storage holds at one position of the log: an intact record, a
\* record that fails to deserialize, a gap of one seqno or of two.
ItemShapes == {"record", "corrupt", "benign", "benign2", "dataloss"}

ShapeSeqs == UNION {[1..n -> ItemShapes] : n \in 1..MaxLogItems}

LogItem(kind, type, from, to, corrupt) ==
  [kind |-> kind, type |-> type, from |-> from, to |-> to,
   corrupt |-> corrupt]

ItemOf(shape, from) ==
  CASE shape = "record" -> LogItem("record", "", from, from, FALSE)
    [] shape = "corrupt" -> LogItem("record", "", from, from, TRUE)
    [] shape = "benign" -> LogItem("gap", "kBenign", from, from, FALSE)
    [] shape = "benign2" -> LogItem("gap", "kBenign", from, from + 1, FALSE)
    [] shape = "dataloss" -> LogItem("gap", "kDataLoss", from, from, FALSE)

\* The items of the shapes, each beginning one past the end of the one before.
RECURSIVE ItemsOf(_, _)
ItemsOf(shapes, from) ==
  IF shapes = <<>> THEN <<>>
  ELSE <<ItemOf(Head(shapes), from)>>
         \o ItemsOf(Tail(shapes), ItemOf(Head(shapes), from).to + 1)

StorageLogs == {ItemsOf(shapes, LogStart) : shapes \in ShapeSeqs}

\* No storage of this kind is attached.
InitInOrder ==
  /\ io_log = <<>>
  /\ io_pos = 0
  /\ io_retries = 0

\* The log was opened by StartReading at the seqno of its first item.
InitRedelivery ==
  /\ io_log \in StorageLogs
  /\ io_pos = 0
  /\ io_retries = 0
  /\ log_state = [r \in ReaderIDs |-> [l \in {InOrderLog} |-> LogStart]]
  /\ storage_queue = <<>>
  /\ lt_start = [r \in ReaderIDs |-> [l \in LogIDs |->
                    IF l = InOrderLog THEN LogStart ELSE 0]]
  /\ lt_forwarded = [r \in ReaderIDs |-> [l \in LogIDs |-> <<>>]]
  /\ script_pos = [l \in LogIDs |-> 0]
  /\ lt_stopped = [r \in ReaderIDs |-> [l \in LogIDs |-> FALSE]]
  /\ lt_last = NoStep
  /\ lt_origin = <<>>

\* Mutant: the callback reports success whatever TryForward returned.
CallbackReturns_AlwaysTrue(force_failure) == TRUE

\* return success; / return TryForward(...);
CallbackReturns(force_failure) == TryForwardSucceeds(force_failure)

\* The storage thread calls record_cb or gap_cb with the item at its
\* position, and moves on to the next item when the callback returned true.
StorageDelivers(force_failure) ==
  /\ io_pos < Len(io_log)
  /\ IF io_log[io_pos + 1].kind = "record"
       THEN /\ record_cb(InOrderLog, io_log[io_pos + 1].from,
                         io_log[io_pos + 1].corrupt, InOrderReader,
                         force_failure)
            /\ UNCHANGED script_pos
       ELSE gap_cb(InOrderLog, io_log[io_pos + 1].type,
                   io_log[io_pos + 1].from, io_log[io_pos + 1].to,
                   InOrderReader, force_failure)
  /\ io_pos' = IF CallbackReturns(force_failure) THEN io_pos + 1 ELSE io_pos
  /\ io_retries' = IF CallbackReturns(force_failure) \/ io_retries = MaxRetries
                     THEN io_retries ELSE io_retries + 1
  /\ UNCHANGED io_log

\* The tailer's loop runs the next command of the queue.
InOrderDrain == DrainQueue /\ UNCHANGED <<io_log, io_pos, io_retries>>

\* The callback is called and the forward is not made to fail.
DeliveryNotForcedToFail ==
  StorageDelivers(FALSE) /\ Unobserved /\ RedeliveryFrame

LoopDrains == InOrderDrain /\ Unobserved /\ RedeliveryFrame

NextRedelivery ==
  \/ \E force_failure \in BOOLEAN :
       StorageDelivers(force_failure) /\ Unobserved /\ RedeliveryFrame
  \/ InOrderDrain /\ Unobserved /\ RedeliveryFrame

\* ---------------------------------------------------------------------------
\* Streams with their owner: a stream is created without a receiver, its
\* owner may set one, and the owner destroys the stream in the end.
\* socket_event_ of a destroyed stream is "destroyed".
\* ---------------------------------------------------------------------------

\* Every stream has its receiver; the socket is an outbound one.
InitStreamOwner ==
  /\ receiver_ = [s \in StreamIDs |-> TRUE]
  /\ is_inbound_ = FALSE

\* No stream exists yet; the socket is inbound or outbound.
InitOwnedStreams ==
  /\ receiver_ = [s \in StreamIDs |-> FALSE]
  /\ is_inbound_ \in BOOLEAN

\* SocketEvent::OpenStream; the owner sets a receiver or leaves it unset.
OwnerOpens(stream_id, set_receiver) ==
  /\ OpenStream(stream_id)
  /\ receiver_' = [receiver_ EXCEPT ![stream_id] = set_receiver]
  /\ UNCHANGED is_inbound_

\* Stream::Write by the owner.
OwnerWrites(stream_id, type, has_room, fault) ==
  /\ socket_event_[stream_id] # "destroyed"
  /\ StreamWrite(stream_id, type, has_room, fault)
  /\ UNCHANGED <<receiver_, is_inbound_>>

\* Stream::Receive on a stream without a receiver: a closed stream returns at
\* once; an open one is closed by a goodbye, and the message is dropped with
\* a log line that evaluates socket_event_->GetLogger().  After a goodbye
\* socket_event_ is null there: undefined behaviour, which either faults or
\* goes on.
ReceiveWithoutReceiver(stream_id, message, fault) ==
  /\ ~st_faulted
  /\ ~closing_
  /\ socket_event_[stream_id] # "unopened"
  /\ socket_event_' =
       [socket_event_ EXCEPT ![stream_id] = ReceiveLeaves(@, message)]
  /\ st_faulted' = (/\ socket_event_[stream_id] = "open"
                    /\ message.type = "mGoodbye"
                    /\ fault)
  /\ st_last' = StreamStep("Receive", stream_id,
                           socket_event_[stream_id] = "open", TRUE,
                           message.type)
  /\ UNCHANGED <<send_queue_, closing_, st_delivered>>

\* Stream::Receive of a message that arrived from the remote host.
OwnedReceive(stream_id, message, fault) ==
  /\ socket_event_[stream_id] # "destroyed"
  /\ IF receiver_[stream_id]
       THEN ~fault /\ StreamReceive(stream_id, message)
       ELSE ReceiveWithoutReceiver(stream_id, message, fault)
  /\ UNCHANGED <<receiver_, is_inbound_>>

\* Mutant: the goodbye of the destructor always names the client.
DestructorOrigin_Client(is_inbound) == "Client"

\* socket_event_->IsInbound() ? OriginType::Server : OriginType::Client
DestructorOrigin(is_inbound) == IF is_inbound THEN "Server" ELSE "Client"

\* A goodbye as it lies on the socket, under the stream's ID.
GoodbyeOnStream(stream_id, code, origin_type) ==
  [stream_id |-> stream_id, type |-> "mGoodbye", code |-> code,
   origin_type |-> origin_type]

\* Stream::~Stream: an open stream writes a goodbye, which closes it; a
\* closed one writes nothing.
DestroyStream(stream_id) ==
  /\ ~st_faulted
  /\ socket_event_[stream_id] \in {"open", "closed"}
  /\ IF socket_event_[stream_id] = "open"
       THEN /\ Len(send_queue_) < MaxStreamMessages
            /\ send_queue_' =
                 Append(send_queue_,
                        GoodbyeOnStream(stream_id, "Graceful",
                                        DestructorOrigin(is_inbound_)))
       ELSE UNCHANGED send_queue_
  /\ socket_event_' = [socket_event_ EXCEPT ![stream_id] = "destroyed"]
  /\ st_last' = StreamStep("Destroy", stream_id,
                           socket_event_[stream_id] = "open", TRUE,
                           "mGoodbye")
  /\ UNCHANGED <<st_delivered, closing_, st_faulted, receiver_, is_inbound_>>

NextOwnedStreams ==
  \/ \E stream_id \in StreamIDs, set_receiver \in BOOLEAN :
       OwnerOpens(stream_id, set_receiver) /\ OwnedStreamsFrame
  \/ \E stream_id \in StreamIDs, type \in StreamMessageTypes,
        has_room \in BOOLEAN, fault \in BOOLEAN :
       OwnerWrites(stream_id, type, has_room, fault) /\ OwnedStreamsFrame
  \/ \E stream_id \in StreamIDs, message \in RemoteMessages,
        fault \in BOOLEAN :
       OwnedReceive(stream_id, message, fault) /\ OwnedStreamsFrame
  \/ \E stream_id \in StreamIDs :
       DestroyStream(stream_id) /\ OwnedStreamsFrame

\* ---------------------------------------------------------------------------
\* The sequence numbers of a MessageDeliver over the whole range of uint64_t
\* (src/messages/messages.cc, src/util/common/coding.cc).
\* ---------------------------------------------------------------------------

\* A uint64_t is held as the groups of bits a varint carries, the low group
\* first: nine groups of seven bits and a last group of one bit, bit 63.
VarintGroups == (63 \div 7) + 1

GroupBase(k) == IF k = VarintGroups THEN 2 ELSE 128

Zero64 == [k \in 1..VarintGroups |-> 0]

\* The highest group of v that is not zero, the first when v is zero.
TopGroup(v) ==
  CHOOSE h \in 1..VarintGroups :
    /\ \A k \in (h + 1)..VarintGroups : v[k] = 0
    /\ h = 1 \/ v[h] # 0

\* EncodeVarint64: bit 7 is set on every byte but the last.
PutVarint64Wide(v) ==
  [k \in 1..TopGroup(v) |-> IF k < TopGroup(v) THEN v[k] + 128 ELSE v[k]]

\* GetVarint64Ptr: the loop reads while shift <= 63 and input is left; group
\* k is read at shift 7 * (k - 1), and the shift by 63 keeps bit 0 of the
\* tenth byte alone.
RECURSIVE GetVarint64Groups(_, _, _)
GetVarint64Groups(in, k, result) ==
  IF k > VarintGroups \/ in = <<>> THEN ReadFailed
  ELSE IF in[1] >= 128
       THEN GetVarint64Groups(Tail(in), k + 1,
              [result EXCEPT ![k] = (in[1] - 128) % GroupBase(k)])
       ELSE Read([result EXCEPT ![k] = in[1] % GroupBase(k)], Tail(in))

GetVarint64Wide(in) == GetVarint64Groups(in, 1, Zero64)

\* The carry out of group k of a + b.
RECURSIVE Carry(_, _, _)
Carry(a, b, k) ==
  IF k = 0 THEN 0
  ELSE (a[k] + b[k] + Carry(a, b, k - 1)) \div GroupBase(k)

\* a + b of two uint64_t: the carry out of bit 63 is lost.
Add64(a, b) ==
  [k \in 1..VarintGroups |->
     (a[k] + b[k] + Carry(a, b, k - 1)) % GroupBase(k)]

\* a < b of two uint64_t.
Less64(a, b) ==
  \E k \in 1..VarintGroups :
    /\ a[k] < b[k]
    /\ \A j \in (k + 1)..VarintGroups : a[j] = b[j]

\* What a call of DeSerialize comes to: the status it returns with the
\* message it filled in, or the process aborted in RS_ASSERT.
Returned(status, msg) == [status |-> status, msg |-> msg]

Aborted == Returned("aborted", <<>>)

\* seqno_ = seqno_prev_ + seqno_diff; RS_ASSERT(seqno_ >= seqno_prev_). A
\* build without NO_RS_ASSERT has the assertion, a build with it has not.
DeliverSeqno64(p, assertions) ==
  IF ~p.ok THEN Returned("InvalidArgument", <<>>)
  ELSE LET seqno_ == Add64(p.msg.seqno_prev_, p.msg.seqno_diff) IN
         IF assertions /\ Less64(seqno_, p.msg.seqno_prev_) THEN Aborted
         ELSE Returned("OK",
                WithoutField(WithField(p, "seqno_", seqno_),
                             "seqno_diff").msg)

\* MessageDeliver::DeSerialize
MessageDeliver_DeSerialize64(in, assertions) ==
  DeliverSeqno64(Field(Field(Field(Message_DeSerialize(in),
    "sub_id_", DecodeSubscriptionID),
    "seqno_prev_", GetVarint64Wide),
    "seqno_diff", GetVarint64Wide), assertions)

\* The uint64_t values the model puts on the wire: the low group, the groups
\* between and bit 63 each at their least and their greatest.
Sample64 ==
  {[k \in 1..VarintGroups |->
      IF k = 1 THEN low ELSE IF k = VarintGroups THEN top ELSE mid] :
     low \in {0, 1, 127}, mid \in {0, 127}, top \in {0, 1}}

\* A varint of more bytes than GetVarint64Ptr reads.
OverlongVarint == [k \in 1..(VarintGroups + 1) |-> 128]

\* A varint whose tenth byte has bits above bit 63.
SpillingVarint == [k \in 1..VarintGroups |-> IF k < VarintGroups THEN 255 ELSE 127]

WireVarints ==
  {PutVarint64Wide(v) : v \in Sample64} \cup {OverlongVarint, SpillingVarint}

\* The bytes of a MessageDeliver whose two varints are seqno_prev and
\* seqno_diff.
DeliverBytes(tenant, sub_id, seqno_prev, seqno_diff) ==
  Message_Serialize([type_ |-> MessageType("deliver_data"),
                     tenantid_ |-> tenant])
    \o EncodeSubscriptionID(sub_id) \o seqno_prev \o seqno_diff

InitDeliverWire ==
  /\ dw_pc = "idle"
  /\ dw_in = <<>>
  /\ dw_out = Returned("none", <<>>)

\* The bytes of a MessageDeliver arrive.
DeliverArrives(tenant, sub_id, seqno_prev, seqno_diff) ==
  /\ dw_pc = "idle"
  /\ dw_pc' = "received"
  /\ dw_in' = DeliverBytes(tenant, sub_id, seqno_prev, seqno_diff)
  /\ UNCHANGED dw_out

\* The receiver deserialises them.
DeliverDeSerialize(assertions) ==
  /\ dw_pc = "received"
  /\ dw_pc' = "deserialized"
  /\ dw_out' = MessageDeliver_DeSerialize64(dw_in, assertions)
  /\ UNCHANGED dw_in

\* The message is released.
DeliverReleased ==
  /\ dw_pc = "deserialized"
  /\ dw_out.status # "aborted"
  /\ dw_pc' = "idle"
  /\ dw_in' = <<>>
  /\ dw_out' = Returned("none", <<>>)

NextDeliverWire ==
  \/ \E tenant \in CodecTenants, sub_id \in CodecSubIds,
        seqno_prev \in WireVarints, seqno_diff \in WireVarints :
       DeliverArrives(tenant, sub_id, seqno_prev, seqno_diff)
         /\ DeliverWireFrame
  \/ \E assertions \in BOOLEAN :
       DeliverDeSerialize(assertions) /\ DeliverWireFrame
  \/ DeliverReleased /\ DeliverWireFrame

\* ---------------------------------------------------------------------------
\* Two MsgLoops with the default handling of pings (src/messages/msg_loop.cc).
\* ---------------------------------------------------------------------------
Loops == {"a", "b"}

Peer(loop) == IF loop = "a" THEN "b" ELSE "a"

\* MessagePing::PingType
kPingTypeNames == <<"NotInitialized", "Request", "Response">>

PingType(name) ==
  CHOOSE t \in 0..(Len(kPingTypeNames) - 1) : kPingTypeNames[t + 1] = name

\* A ping request of the application.
PingRequest(tenant, cookie) ==
  [type_ |-> MessageType("ping"), tenantid_ |-> tenant,
   pingtype_ |-> PingType("Request"), cookie_ |-> cookie]

\* SerializedSendCommand::Request / Response: the bytes and the stream they
\* go to.
SerializedSendCommand(serial, stream) == [serial |-> serial, stream |-> stream]

PingStep(op, loop, pingtype, ok) ==
  [op |-> op, loop |-> loop, pingtype |-> pingtype, ok |-> ok]

InitPing ==
  /\ msg_callbacks_ = [loop \in Loops |-> FALSE]
  /\ ping_commands = [loop \in Loops |-> <<>>]
  /\ ping_wire = [loop \in Loops |-> <<>>]
  /\ ping_issued = 0
  /\ ping_responses = 0
  /\ ping_last = PingStep("none", "a", 0, TRUE)

\* event_loops_[worker_id]->SendCommand(command).ok(): the loop's queue takes
\* the command unless it is full.
PingSendCommandOk(loop) == Len(ping_commands[loop]) < CommandQueueSize

\* MsgLoop::SendRequest / SendResponse: the serialised message is queued on
\* the loop when the queue has room.
SendSerialized(loop, msg, stream) ==
  IF PingSendCommandOk(loop)
  THEN [ping_commands EXCEPT ![loop] =
          Append(@, SerializedSendCommand(MessagePing_Serialize(msg), stream))]
  ELSE ping_commands

\* MsgLoop::Run: the loop starts with ProcessPing as its callback for pings.
Run(loop) ==
  /\ ~msg_callbacks_[loop]
  /\ msg_callbacks_' = [msg_callbacks_ EXCEPT ![loop] = TRUE]
  /\ ping_last' = PingStep("Run", loop, 0, TRUE)
  /\ UNCHANGED <<ping_commands, ping_wire, ping_issued, ping_responses>>

\* The application of a loop sends a ping request on a stream to the peer.
SendRequest(loop, tenant, cookie, stream) ==
  /\ msg_callbacks_[loop]
  /\ ping_issued < MaxPings
  /\ ping_commands' = SendSerialized(loop, PingRequest(tenant, cookie), stream)
  /\ ping_issued' = ping_issued + 1
  /\ ping_last' = PingStep("SendRequest", loop, PingType("Request"),
                           PingSendCommandOk(loop))
  /\ UNCHANGED <<msg_callbacks_, ping_wire, ping_responses>>

\* The event loop runs its first send command: the bytes leave on the stream
\* for the peer.
RunSendCommand(loop) ==
  /\ msg_callbacks_[loop]
  /\ ping_commands[loop] # <<>>
  /\ ping_commands' = [ping_commands EXCEPT ![loop] = Tail(@)]
  /\ ping_wire' = [ping_wire EXCEPT ![Peer(loop)] =
                     Append(@, Head(ping_commands[loop]))]
  /\ ping_last' = PingStep("RunSendCommand", loop, 0, TRUE)
  /\ UNCHANGED <<msg_callbacks_, ping_issued, ping_responses>>

\* Mutant: a response is answered like a request.
ProcessPing_AnswersResponses(loop) ==
  LET origin == Head(ping_wire[loop]).stream
      request == MessagePing_DeSerialize(Head(ping_wire[loop]).serial)
  IN  /\ msg_callbacks_[loop]
      /\ ping_wire[loop] # <<>>
      /\ ping_wire' = [ping_wire EXCEPT ![loop] = Tail(@)]
      /\ ping_commands' =
           SendSerialized(loop,
             [request EXCEPT !.pingtype_ = PingType("Response")], origin)
      /\ ping_responses' =
           IF PingSendCommandOk(loop) /\ ping_responses < MaxPings
             THEN ping_responses + 1 ELSE ping_responses
      /\ ping_last' = PingStep("ProcessPing", loop, request.pingtype_,
                               PingSendCommandOk(loop))
      /\ UNCHANGED <<msg_callbacks_, ping_issued>>

\* MsgLoop::ProcessPing, called by EventCallback with a ping that arrived on
\* the stream origin.
ProcessPing(loop) ==
  LET origin == Head(ping_wire[loop]).stream
      request == MessagePing_DeSerialize(Head(ping_wire[loop]).serial)
      answers == request.pingtype_ # PingType("Response")
  IN  /\ msg_callbacks_[loop]
      /\ ping_wire[loop] # <<>>
      /\ ping_wire' = [ping_wire EXCEPT ![loop] = Tail(@)]
      /\ ping_commands' =
           IF answers
             THEN SendSerialized(loop,
                    [request EXCEPT !.pingtype_ = PingType("Response")],
                    origin)
             ELSE ping_commands
      /\ ping_responses' =
           IF answers /\ PingSendCommandOk(loop)
             THEN ping_responses + 1 ELSE ping_responses
      /\ ping_last' = PingStep("ProcessPing", loop, request.pingtype_,
                               answers => PingSendCommandOk(loop))
      /\ UNCHANGED <<msg_callbacks_, ping_issued>>

NextPing ==
  \/ \E loop \in Loops : Run(loop) /\ PingFrame
  \/ \E loop \in Loops, tenant \in CodecTenants, cookie \in CodecStrings,
        stream \in StreamIDs :
       SendRequest(loop, tenant, cookie, stream) /\ PingFrame
  \/ \E loop \in Loops : RunSendCommand(loop) /\ PingFrame
  \/ \E loop \in Loops : ProcessPing(loop) /\ PingFrame

\* The topic map as constructed, with one digest function.
IdleMap == InitMap /\ digest = DigestA

Init ==
  /\ InitMap
  /\ InitRocketeer
  /\ InitLogTailer
  /\ InitSubscriber
  /\ InitTailCollapsing
  /\ InitCodec
  /\ InitRoom
  /\ InitRocketeerServer
  /\ InitMultiThreaded
  /\ InitStream
  /\ InitSeqnoZero
  /\ InitInOrder
  /\ InitStreamOwner
  /\ InitDeliverWire
  /\ InitPing

SpecMap == Init /\ [][NextMap]_vars

SpecMapDuplicates == Init /\ [][NextMapDuplicates]_vars

InitRk ==
  /\ IdleMap
  /\ InitRocketeer
  /\ InitLogTailer
  /\ InitSubscriber
  /\ InitTailCollapsing
  /\ InitCodec
  /\ InitRoom
  /\ InitRocketeerServer
  /\ InitMultiThreaded
  /\ InitStream
  /\ InitSeqnoZero
  /\ InitInOrder
  /\ InitStreamOwner
  /\ InitDeliverWire
  /\ InitPing

SpecRocketeer == InitRk /\ [][NextRocketeer]_vars

SpecLogTailer == InitRk /\ [][NextLogTailer]_vars

\* The storage of the out-of-order scenario: for each log it delivers the
\* records with these seqnos, in this order.
Script == <<10, 12, 11>>

\* Both logs were opened by StartReading at the first seqno of the script.
InitScript ==
  /\ IdleMap
  /\ InitRocketeer
  /\ InitSubscriber
  /\ InitTailCollapsing
  /\ InitCodec
  /\ InitRoom
  /\ InitRocketeerServer
  /\ InitMultiThreaded
  /\ InitStream
  /\ InitSeqnoZero
  /\ InitInOrder
  /\ InitStreamOwner
  /\ InitDeliverWire
  /\ InitPing
  /\ log_state = [r \in ReaderIDs |-> [l \in LogIDs |-> Head(Script)]]
  /\ storage_queue = <<>>
  /\ lt_start = [r \in ReaderIDs |-> [l \in LogIDs |-> Head(Script)]]
  /\ lt_forwarded = [r \in ReaderIDs |-> [l \in LogIDs |-> <<>>]]
  /\ script_pos = [l \in LogIDs |-> 0]
  /\ lt_stopped = [r \in ReaderIDs |-> [l \in LogIDs |-> FALSE]]
  /\ lt_last = NoStep
  /\ lt_origin = <<>>

\* The storage calls record_cb with the next record of the script; when the
\* callback returns false the record is handed back and delivered again.
ScriptedRecord(log_id, reader_id, force_failure) ==
  /\ script_pos[log_id] < Len(Script)
  /\ record_cb(log_id, Script[script_pos[log_id] + 1], FALSE, reader_id,
               force_failure)
  /\ script_pos' = [script_pos EXCEPT ![log_id] =
                      IF TryForwardSucceeds(force_failure) THEN @ + 1 ELSE @]

NextScript ==
  \/ \E r \in ReaderIDs, l \in LogIDs, force_failure \in BOOLEAN :
       ScriptedRecord(l, r, force_failure) /\ Unobserved /\ LogTailerFrame
  \/ DrainQueue /\ Unobserved /\ LogTailerFrame
  \/ \E r \in ReaderIDs, l \in LogIDs :
       StopReading(l, r) /\ Unobserved /\ LogTailerFrame

SpecScript == InitScript /\ [][NextScript]_vars

SpecSubscriber == InitRk /\ [][NextSubscriber]_vars

SpecTailCollapsing == InitRk /\ [][NextTailCollapsing]_vars

SpecCodec == InitRk /\ [][NextCodec]_vars

SpecObserved == InitRk /\ [][NextObserved]_vars

SpecTopicManager == InitRk /\ [][NextTopicManager]_vars

SpecRoom == InitRk /\ [][NextRoom]_vars

SpecRocketeerServer == InitRk /\ [][NextRocketeerServer]_vars

SpecMultiThreaded == InitRk /\ [][NextMultiThreaded]_vars

SpecStream == InitRk /\ [][NextStream]_vars

SpecSeqnoZero == InitRk /\ [][NextSeqnoZero]_vars

InitRedeliveryAll ==
  /\ IdleMap
  /\ InitRocketeer
  /\ InitSubscriber
  /\ InitTailCollapsing
  /\ InitCodec
  /\ InitRoom
  /\ InitRocketeerServer
  /\ InitMultiThreaded
  /\ InitStream
  /\ InitSeqnoZero
  /\ InitStreamOwner
  /\ InitDeliverWire
  /\ InitPing
  /\ InitRedelivery

InitOwnedStreamsAll ==
  /\ IdleMap
  /\ InitRocketeer
  /\ InitLogTailer
  /\ InitSubscriber
  /\ InitTailCollapsing
  /\ InitCodec
  /\ InitRoom
  /\ InitRocketeerServer
  /\ InitMultiThreaded
  /\ InitStream
  /\ InitSeqnoZero
  /\ InitInOrder
  /\ InitOwnedStreams
  /\ InitDeliverWire
  /\ InitPing

SpecDeliverWire == Init /\ [][NextDeliverWire]_vars

SpecPing == Init /\ [][NextPing]_vars

SpecOwnedStreams == InitOwnedStreamsAll /\ [][NextOwnedStreams]_vars

SpecRedelivery == InitRedeliveryAll /\ [][NextRedelivery]_vars

\* The tailer's loop keeps draining its queue, and the storage keeps calling
\* back with a forward that is not forced to fail every time.
SpecRedeliveryFair ==
  /\ SpecRedelivery
  /\ WF_vars(LoopDrains)
  /\ WF_vars(DeliveryNotForcedToFail)

\* The event loop keeps running its timer and the processor of
\* pending_subscriptions_; MaxGoodbyes keeps the goodbyes from coming forever.
SpecSubscriberFair ==
  /\ SpecSubscriber
  /\ WF_vars(Tick /\ SubscriberFrame)
  /\ \A sub_id \in ClientSubIds :
       WF_vars(ProcessPendingSubscription(sub_id) /\ SubscriberFrame)

(***************************************************************************)
(* Claims on the TopicToSubscriptionMap, checked under SpecMap.            *)
(***************************************************************************)
Miss == [sub_id |-> kReservedSubscriptionID, state |-> NullState]

\* C1 as stated: Find(ns, topic) returns the sub_id last inserted for
\* (ns, topic), and 0 with a null state once a matching Remove erased it, as
\* a plain reference map from keys to IDs would.
C1_FindReturnsLastInserted ==
  \A k \in Keys :
    IF ref_map[k] = kReservedSubscriptionID
      THEN Find(k) = Miss
      ELSE Find(k) = [sub_id |-> ref_map[k], state |-> k]

\* C1 amended: Find(ns, topic) returns, with its state, an ID that is stored
\* under (ns, topic), and 0 with a null state exactly when none is stored;
\* the map stores exactly the IDs inserted and not removed since; and as long
\* as no Insert met another ID stored under its key, the ID found is the one
\* last inserted for the key, as in a plain reference map.
C1_FindReturnsStored ==
  /\ StoredIds = ref_ids
  /\ \A k \in Keys :
        IF IdsUnder(ref_ids, k) = {}
          THEN Find(k) = Miss
          ELSE Find(k).sub_id \in IdsUnder(ref_ids, k) /\ Find(k).state = k
  /\ key_unique => C1_FindReturnsLastInserted

\* C1 witness: the vector was rebuilt to a larger size, entries were removed
\* since, one key is found and another one is missed.
C1_Witness ==
  /\ key_unique
  /\ Len(vector_) > kMinSize
  /\ map_last = "remove_hit"
  /\ sub_count_ < sub_count_high_ - 2
  /\ \E k \in Keys : Find(k).sub_id # kReservedSubscriptionID
  /\ \E k \in Keys : Find(k) = Miss /\ ref_map[k] = kReservedSubscriptionID

\* The slots from position a cyclically up to position b of a vector.
CyclicRange(vec, a, b) ==
  {(a + j) % Len(vec) : j \in 0..((b - a + Len(vec)) % Len(vec))}

\* C8: no stored entry is separated from its optimal position by an empty
\* slot: every slot cyclically from the optimal position of an entry up to
\* its actual position is occupied.
C8_NoGapBeforeEntry ==
  \A p \in 0..(Len(vector_) - 1) :
    vector_[p + 1] # kReservedSubscriptionID =>
      \A q \in CyclicRange(vector_,
                           FindOptimalPosition(vector_, get_state_(vector_[p + 1])),
                           p) :
        vector_[q + 1] # kReservedSubscriptionID

\* C8 witness: after a Remove that found its entry, an entry sits past the end
\* of the vector from its optimal position (its probe chain wraps around).
C8_Witness ==
  /\ map_last = "remove_hit"
  /\ \E p \in 0..(Len(vector_) - 1) :
        /\ vector_[p + 1] # kReservedSubscriptionID
        /\ FindOptimalPosition(vector_, get_state_(vector_[p + 1])) > p

\* C9 as stated: after any sequence of Insert and Remove (taken here from
\* the first Insert on) the count lies in [low, high) and the capacity is at
\* least 16.
C9_CountInLowHigh ==
  vector_ # <<>> =>
    /\ sub_count_low_ <= sub_count_
    /\ sub_count_ < sub_count_high_
    /\ Len(vector_) >= kMinSize

\* C9 amended: after any sequence of Insert and Remove with at least one
\* Insert (the vector exists from the first Insert on), low <= count <= high
\* < capacity and capacity >= 16; count < high
\* holds after a Remove that found its entry, while an Insert may leave
\* count = high (it rehashes before it adds the entry, not after).
C9_CountWithinLowHighInclusive ==
  vector_ # <<>> =>
    /\ sub_count_low_ <= sub_count_
    /\ sub_count_ <= sub_count_high_
    /\ sub_count_high_ < Len(vector_)
    /\ Len(vector_) >= kMinSize
    /\ sub_count_ = Cardinality(StoredIds)
    /\ (map_last = "remove_hit" => sub_count_ < sub_count_high_)

\* C9 witness: an Insert has left the count at the high watermark.
C9_Witness ==
  /\ map_last = "insert"
  /\ sub_count_ = sub_count_high_
  /\ sub_count_low_ > 0

(***************************************************************************)
(* Claims on the CommunicationRocketeer, checked under SpecRocketeer.      *)
(***************************************************************************)
IsDelivery(e) == e.ev \in {"DeliverData", "DeliverGap"}

\* The seqnos of the deliveries of one subscription's trace increase strictly.
DeliveriesIncrease(trace) ==
  \A a, b \in DOMAIN trace :
    (a < b /\ IsDelivery(trace[a]) /\ IsDelivery(trace[b])) =>
      trace[a].seqno < trace[b].seqno

\* A step that sends a delivery on subscription i sends one whose seqno is
\* greater than the prev_seqno the subscription had before the step.
DeliverySentAdvances(i) ==
  (/\ Len(rk_trace'[i]) = Len(rk_trace[i]) + 1
   /\ IsDelivery(rk_trace'[i][Len(rk_trace'[i])])) =>
    /\ HasInbound(i[1], i[2])
    /\ FindInbound(i[1], i[2]).prev_seqno
         < rk_trace'[i][Len(rk_trace'[i])].seqno

\* C2: for each inbound subscription (stream, sub_id), the DeliverData and
\* DeliverGap messages sent carry strictly increasing seqnos under any
\* sequence of Deliver and Advance calls, and a Deliver or Advance whose
\* seqno is not greater than the subscription's prev_seqno sends no message.
C2_DeliverSeqnosIncrease ==
  /\ [](\A i \in InboundIDs : DeliveriesIncrease(rk_trace[i]))
  /\ [][\A i \in InboundIDs : DeliverySentAdvances(i)]_vars

\* C2 witness: a subscription has sent a DeliverData and a DeliverGap, and a
\* Deliver or Advance was dropped as reordered.
C2_Witness ==
  /\ dropped_reordered > 0
  /\ \E i \in InboundIDs :
        /\ HasInbound(i[1], i[2])
        /\ \E a, b \in DOMAIN rk_trace[i] :
              /\ rk_trace[i][a].ev = "DeliverData"
              /\ rk_trace[i][b].ev = "DeliverGap"

(***************************************************************************)
(* LogTailer: properties                                                   *)
(***************************************************************************)
\* Each forwarded record or gap begins where the one before it ended, the
\* first at start.
ChainContiguous(start, chain) ==
  \A j \in 1..Len(chain) :
    chain[j].from = IF j = 1 THEN start ELSE chain[j - 1].to + 1

ExpectedAfter(start, chain) ==
  IF chain = <<>> THEN start ELSE chain[Len(chain)].to + 1

\* The command the loop is about to run does not begin at the expected seqno
\* of an open log.
HeadOutOfOrder ==
  /\ storage_queue # <<>>
  /\ LET c == Head(storage_queue)
     IN ~(IsOpen(c.reader_id, c.log_id)
          /\ log_state[c.reader_id][c.log_id] = c.from)

\* C3: for each (reader, log), what the user callbacks received since the
\* StartReading(log, start) that opened the log is contiguous and in order
\* from start, the expected seqno is the seqno after the last one forwarded,
\* nothing is forwarded for a log that is not open, and running a command
\* that does not begin at the expected seqno changes neither the expected
\* seqnos nor what was forwarded.
C3_ForwardedContiguous ==
  /\ [](\A r \in ReaderIDs, l \in LogIDs :
          IF IsOpen(r, l)
            THEN /\ ChainContiguous(lt_start[r][l], lt_forwarded[r][l])
                 /\ log_state[r][l] =
                      ExpectedAfter(lt_start[r][l], lt_forwarded[r][l])
            ELSE lt_forwarded[r][l] = <<>>)
  /\ [][(HeadOutOfOrder /\ storage_queue' = Tail(storage_queue))
          => UNCHANGED <<log_state, lt_forwarded>>]_vars

\* Two callbacks were forwarded for a log and the next command is out of
\* order for it.
C3_Witness ==
  \E r \in ReaderIDs, l \in LogIDs :
    /\ Len(lt_forwarded[r][l]) = 2
    /\ HeadOutOfOrder
    /\ Head(storage_queue).log_id = l
    /\ Head(storage_queue).reader_id = r

ForwardedSeqnos(r, l) ==
  [j \in 1..Len(lt_forwarded[r][l]) |-> lt_forwarded[r][l][j].from]

\* The storage has delivered the whole script for the log and the loop has
\* run every command of the log.
ScriptDone(r, l) ==
  /\ script_pos[l] = Len(Script)
  /\ \A j \in 1..Len(storage_queue) :
       ~(storage_queue[j].log_id = l /\ storage_queue[j].reader_id = r)

IsPrefix(p, q) ==
  Len(p) <= Len(q) /\ \A j \in 1..Len(p) : p[j] = q[j]

\* C10 as stated: with expected seqno 10 and the storage delivering 10, 12,
\* 11 for a log that stays open, the user callback gets 10 and 12 and
\* never 11.
C10_Forwards10And12Never11 ==
  \A r \in ReaderIDs, l \in LogIDs :
    /\ \A j \in 1..Len(lt_forwarded[r][l]) : ForwardedSeqnos(r, l)[j] # 11
    /\ (IsOpen(r, l) /\ ScriptDone(r, l))
         => ForwardedSeqnos(r, l) = <<10, 12>>

\* C10 as the code has it: for a log that stays open the user callback gets
\* 10 and then 11 and never 12; 12 arrives while 11 is expected and is
\* dropped.
C10_Forwards10And11Never12 ==
  \A r \in ReaderIDs, l \in LogIDs :
    /\ IsPrefix(ForwardedSeqnos(r, l), <<10, 11>>)
    /\ (IsOpen(r, l) /\ ScriptDone(r, l))
         => ForwardedSeqnos(r, l) = <<10, 11>>

\* The three records of a log were delivered and run.
C10_Witness ==
  \E r \in ReaderIDs, l \in LogIDs :
    IsOpen(r, l) /\ ScriptDone(r, l) /\ Len(lt_forwarded[r][l]) = 2

(***************************************************************************)
(* Subscriber: properties                                                  *)
(***************************************************************************)
\* The seqnos a message handed to the Observer accounts for: its own, and for
\* one accepted beyond the expected seqno those from its prev_seqno on.
EmittedInOrder(emitted) ==
  \A j \in 2..Len(emitted) :
    /\ emitted[j - 1].seqno < emitted[j].seqno
    /\ \/ emitted[j].seqno = emitted[j - 1].seqno + 1
       \/ emitted[j].prev_seqno = emitted[j - 1].seqno + 1

\* C4: the messages handed to a subscription's Observer have strictly
\* increasing seqnos, each the previous one plus one or beginning (prev_seqno)
\* right after the previous one, and the expected seqno of a subscription
\* never decreases.
C4_EmittedSeqnosIncrease ==
  /\ [](\A sub_id \in ClientSubIds : EmittedInOrder(sub_emitted[sub_id]))
  /\ [][\A sub_id \in DOMAIN subscriptions_ \cap DOMAIN subscriptions_' :
          GetExpected(subscriptions_[sub_id])
            <= GetExpected(subscriptions_'[sub_id])]_vars

\* A message was accepted beyond the expected seqno, after another one.
C4_Witness ==
  \E sub_id \in ClientSubIds :
    /\ Len(sub_emitted[sub_id]) >= 2
    /\ sub_emitted[sub_id][2].seqno = sub_emitted[sub_id][1].seqno + 2

\* ProcessPendingSubscription writes the Subscribe of a subscription on a
\* stream that was reopened after a goodbye.
SubscribeRewritten(sub_id) ==
  /\ goodbyes_seen > 0
  /\ server_stream_ /\ server_stream_'
  /\ sub_id \in pending_subscriptions_
  /\ sub_id \notin pending_subscriptions_'
  /\ sub_id \in DOMAIN subscriptions_

LastEmitted(sub_id) == sub_emitted[sub_id][Len(sub_emitted[sub_id])]

\* After a goodbye a subscription that stays is written in a fresh Subscribe.
Resubscribed(sub_id) ==
  (goodbyes_seen > 0 /\ sub_id \in DOMAIN subscriptions_)
    ~> (sub_id \in DOMAIN sent_subscribe \/ sub_id \notin DOMAIN subscriptions_)

C7_OneUnsubscribePerWindow ==
  \A sub_id \in ClientSubIds : Len(unsub_ages[sub_id]) <= 1

\* A Deliver on a terminated subscription was answered by an Unsubscribe and
\* a later one in the same window was not.
C7_Witness ==
  \E sub_id \in DOMAIN sub_start :
    /\ sub_id \notin DOMAIN subscriptions_
    /\ sub_id \in deduplicated
    /\ Len(unsub_ages[sub_id]) = 1

(***************************************************************************)
(* TailCollapsingSubscriber: properties                                    *)
(***************************************************************************)
\* Two distinct downstream subscriptions on one (namespace, topic), both
\* started at the tail.
TailPair(d1, d2) ==
  /\ d1 \in DOMAIN tc_downstream /\ d2 \in DOMAIN tc_downstream
  /\ d1 # d2
  /\ get_state_(d1) = get_state_(d2)
  /\ tc_downstream[d1].start_seqno = 0
  /\ tc_downstream[d2].start_seqno = 0

\* The records delivered on the upstream since the downstream started, each
\* once and in order.
ReceivedEachOnce(sub_id) ==
  LET down == tc_downstream[sub_id]
      delivered == tc_upstream[UpstreamOf(sub_id)].delivered
  IN  down.received = [j \in 1..(delivered - down.joined) |-> down.joined + j]

AtMillisecond(m) ==
  IF "timestamp_" \in DOMAIN m
  THEN [m EXCEPT !.timestamp_ = (@ \div TicksPerMs) * TicksPerMs]
  ELSE m

\* C11 (as stated): the message built by CreateNewInstance from the
\* serialisation of a well-formed message m equals m in every field.
C11_RoundTripEqual ==
  codec_pc = "deserialized" => codec_out = codec_msg

\* C11 (amended): the message built by CreateNewInstance from the
\* serialisation of a well-formed message m equals m in every field, the
\* timestamp of a Heartbeat or HeartbeatDelta being that of m rounded down to
\* a whole millisecond.
C11_RoundTripEqualAtMillisecond ==
  codec_pc = "deserialized" => codec_out = AtMillisecond(codec_msg)

\* A heartbeat sent between two milliseconds came back, with its shards.
C11_Witness ==
  /\ codec_pc = "deserialized"
  /\ codec_msg.type_ = MessageType("heartbeat")
  /\ codec_msg.timestamp_ % TicksPerMs # 0
  /\ Len(codec_msg.healthy_streams_) = MaxListLen
  /\ codec_out.healthy_streams_ = codec_msg.healthy_streams_

(***************************************************************************)
(* LogTailer: the storage callbacks and the loop, observed                 *)
(***************************************************************************)
\* C12: when record_cb cannot enqueue its command, because the queue is full
\* or a failure is forced, it returns false, the storage holds the record it
\* passed, intact, and neither log_state nor the queue changes and no user
\* callback is invoked.
C12_FailedForwardHandsRecordBack ==
  [][/\ \A r \in ReaderIDs, l \in ObservedLogs, seqno \in LogSeqnos,
          corrupt \in BOOLEAN, force_failure \in BOOLEAN :
          (/\ ObservedRecord(l, seqno, corrupt, r, force_failure)
           /\ (force_failure \/ Len(storage_queue) >= QueueSize))
            => ~lt_last'.ok
     /\ (lt_last'.op = "record_cb" /\ ~lt_last'.ok)
          => /\ lt_last'.intact
             /\ UNCHANGED <<log_state, storage_queue, lt_forwarded>>]_vars

\* record_cb returned false on a full queue, for an open log, and the storage
\* has its record back.
C12_Witness ==
  /\ lt_last.op = "record_cb"
  /\ ~lt_last.ok
  /\ lt_last.intact
  /\ Len(storage_queue) = QueueSize
  /\ \E l \in ObservedLogs : IsOpen(0, l)

\* C13: from StopReading(L, r) until the next StartReading(L, ., r), nothing
\* of log L is passed to the reader's on_record / on_gap and log_state does
\* not change; a command for L that the loop runs meanwhile is dropped.
C13_StoppedLogIsSilent ==
  [][\A r \in ReaderIDs, l \in ObservedLogs :
       (lt_stopped[r][l] /\ lt_last'.op # "StartReading")
         => /\ log_state' = log_state
            /\ lt_forwarded'[r][l] = lt_forwarded[r][l]
            /\ lt_forwarded[r][l] = <<>>
            /\ (lt_last'.op = "callback" /\ storage_queue' # storage_queue)
                 => (lt_last'.late /\ ~lt_last'.ok)]_vars

\* The loop dropped a command for a stopped log, and another is still queued.
C13_Witness ==
  /\ lt_last.op = "callback"
  /\ lt_last.late
  /\ ~lt_last.ok
  /\ \E l \in ObservedLogs :
       /\ lt_stopped[0][l]
       /\ storage_queue # <<>>
       /\ Head(storage_queue).log_id = l

\* What on_gap is handed for a record of seqno that failed to deserialize.
DataLossOf(seqno) ==
  [kind |-> "gap", type |-> "kDataLoss", from |-> seqno, to |-> seqno]

\* C14: a record that fails to deserialize is forwarded as a gap of type
\* DataLoss with from = to = its seqno; when the loop runs that command and
\* the seqno is the expected one, on_gap is handed (DataLoss, seqno, seqno)
\* and the expected seqno becomes seqno + 1; otherwise nothing is invoked, so
\* that on_record is never invoked for the record.
C14_CorruptRecordIsDataLossGap ==
  [][/\ \A r \in ReaderIDs, l \in ObservedLogs, seqno \in LogSeqnos,
          force_failure \in BOOLEAN :
          (/\ ObservedRecord(l, seqno, TRUE, r, force_failure)
           /\ TryForwardSucceeds(force_failure))
            => storage_queue' =
                 Append(storage_queue,
                        GapCommand(l, "kDataLoss", seqno, seqno, r))
     /\ \A r \in ReaderIDs, l \in ObservedLogs, seqno \in LogSeqnos :
          (/\ ObservedCallback
           /\ Head(lt_origin)
           /\ Head(storage_queue).log_id = l
           /\ Head(storage_queue).reader_id = r
           /\ Head(storage_queue).from = seqno)
            => IF IsOpen(r, l) /\ log_state[r][l] = seqno
                 THEN /\ lt_forwarded'[r][l] =
                           Append(lt_forwarded[r][l], DataLossOf(seqno))
                      /\ log_state'[r][l] = seqno + 1
                 ELSE UNCHANGED <<log_state, lt_forwarded>>]_vars

\* The loop ran the command of a record that failed to deserialize, at the
\* expected seqno: the reader's last callback is the gap, and the log
\* expects the seqno after it.
C14_Witness ==
  /\ lt_last.op = "callback"
  /\ lt_last.corrupt
  /\ lt_last.ok
  /\ \E l \in ObservedLogs :
       /\ IsOpen(0, l)
       /\ lt_forwarded[0][l] # <<>>
       /\ lt_forwarded[0][l][Len(lt_forwarded[0][l])] =
            DataLossOf(log_state[0][l] - 1)

(***************************************************************************)
(* ControlRoom and TopicManager: properties                                *)
(***************************************************************************)
\* The Sends of the room's last command that went to host.
SendsTo(host) == {i \in DOMAIN room_sent : room_sent[i].to = host}

\* C15: ProcessData sends one copy of the message to each host on the
\* topic's TopicList, whether or not the Sends before it succeeded, sends
\* none to any other host, and leaves the message's seqno as the last read
\* of its log, also when the topic has no subscribers.
C15_OneCopyPerSubscriber ==
  room_last.op = "ProcessData" =>
    /\ \A host \in HostIds :
         Cardinality(SendsTo(host)) =
           IF HostNumberOf(host_map, host)
                \in Subscribers(topic_map_[room_last.topic])
             THEN 1 ELSE 0
    /\ \A i \in DOMAIN room_sent :
         /\ room_sent[i].msg = room_last
         /\ room_sent[i].to \in HostIds
    /\ last_read[room_last.logid] = room_last.seqno

\* A message went to both subscribers of its topic although the first Send
\* failed, while the other topic has no subscribers.
C15_Witness ==
  /\ room_last.op = "ProcessData"
  /\ Len(room_sent) = 2
  /\ ~room_sent[1].ok
  /\ room_sent[2].ok
  /\ \E t \in RoomTopics : topic_map_[t] = <<>>

\* C16: ProcessMetadata of a Request updates the TopicList of the request's
\* topic (the origin is on it after a subscribe, off it after an unsubscribe)
\* and then sends one Response, the request with its meta type changed, to
\* the origin; a message that is not a Request changes neither the topic map
\* nor the host map and nothing is sent.
C16_RequestUpdatesThenResponds ==
  [][room_last'.op = "ProcessMetadata" =>
       IF room_last'.metatype = "Request"
         THEN /\ Len(room_sent') = 1
              /\ room_sent'[1].to = room_last'.origin
              /\ room_sent'[1].msg =
                   [room_last' EXCEPT !.metatype = "Response"]
              /\ room_sent'[1].list = topic_map_'[room_last'.topic]
              /\ room_last'.topic_type = "mSubscribe"
                   => HostNumberOf(host_map', room_last'.origin)
                        \in Subscribers(topic_map_'[room_last'.topic])
              /\ room_last'.topic_type = "mUnSubscribe"
                   => HostNumberOf(host_map', room_last'.origin)
                        \notin Subscribers(topic_map_'[room_last'.topic])
              /\ HostNumberOf(host_map', room_last'.origin) >= 0
              /\ \A t \in RoomTopics \ {room_last'.topic} :
                   topic_map_'[t] = topic_map_[t]
         ELSE /\ room_sent' = <<>>
              /\ UNCHANGED <<topic_map_, host_map, last_read>>]_vars

\* The second of two subscribers unsubscribed and was sent the Response,
\* the first staying on the topic.
C16_Witness ==
  /\ room_last.op = "ProcessMetadata"
  /\ room_last.metatype = "Request"
  /\ room_last.topic_type = "mUnSubscribe"
  /\ Len(room_sent) = 1
  /\ room_sent[1].to = room_last.origin
  /\ Len(host_map) = 2
  /\ room_last.origin = host_map[2]
  /\ Subscribers(topic_map_[room_last.topic]) = {0}

\* C17 (as stated): AddSubscriber returns true iff the call takes the
\* topic's subscribers from none to some.
C17_TrueIffFirstSubscriber ==
  [][tm_last'.op = "AddSubscriber" =>
       (tm_last'.returned <=>
          (/\ topic_map_[tm_last'.topic] = <<>>
           /\ topic_map_'[tm_last'.topic] # <<>>))]_vars

\* C17 (amended): AddSubscriber returns true iff the host was not a
\* subscriber of the topic before the call, and is one after it either way.
C17_TrueIffNewSubscriber ==
  [][tm_last'.op = "AddSubscriber" =>
       /\ tm_last'.returned <=>
            tm_last'.subscriber \notin Subscribers(topic_map_[tm_last'.topic])
       /\ Subscribers(topic_map_'[tm_last'.topic]) =
            Subscribers(topic_map_[tm_last'.topic])
              \cup {tm_last'.subscriber}]_vars

\* AddSubscriber returned true for the second subscriber of a topic.
C17_Witness ==
  /\ tm_last.op = "AddSubscriber"
  /\ tm_last.returned
  /\ Len(topic_map_[tm_last.topic]) = 2
  /\ topic_map_[tm_last.topic][2].hostnum_ = tm_last.subscriber

\* C18: RemoveSubscriber returns true iff the call takes the topic's
\* subscribers from some to none.
C18_TrueIffLastSubscriber ==
  [][tm_last'.op = "RemoveSubscriber" =>
       (tm_last'.returned <=>
          (/\ topic_map_[tm_last'.topic] # <<>>
           /\ topic_map_'[tm_last'.topic] = <<>>))]_vars

\* RemoveSubscriber returned true for the last of a topic's subscribers,
\* the other topic keeping its own.
C18_Witness ==
  /\ tm_last.op = "RemoveSubscriber"
  /\ tm_last.returned
  /\ topic_map_[tm_last.topic] = <<>>
  /\ \E t \in RoomTopics : Len(topic_map_[t]) = 2

(***************************************************************************)
(* CommunicationRocketeer: terminations                                    *)
(***************************************************************************)
\* The subscriptions other than those of `gone` and their traces are as
\* they were.
OthersUntouched(gone) ==
  \A j \in InboundIDs \ gone :
    /\ rk_trace'[j] = rk_trace[j]
    /\ HasInbound(j[1], j[2])
         => /\ j[1] \in DOMAIN inbound_subscriptions_'
            /\ j[2] \in DOMAIN inbound_subscriptions_'[j[1]]
            /\ inbound_subscriptions_'[j[1]][j[2]] = FindInbound(j[1], j[2])
    /\ ~HasInbound(j[1], j[2])
         => \/ j[1] \notin DOMAIN inbound_subscriptions_'
            \/ j[2] \notin DOMAIN inbound_subscriptions_'[j[1]]

\* The trace of subscription i grew by exactly the events `added`.
TraceGrewBy(i, added) == rk_trace'[i] = rk_trace[i] \o added

\* C19: Terminate of an existing subscription removes it, invokes
\* HandleTermination with source Rocketeer once and then sends one
\* Unsubscribe with the given reason on the subscription's stream, leaving
\* every other subscription alone; Terminate of an unknown (stream, sub_id)
\* changes nothing, invokes nothing and sends nothing.
C19_TerminateNotifiesOnce ==
  [][\A i \in InboundIDs, reason \in Reasons :
       Terminate(i[1], i[2], reason) =>
         IF HasInbound(i[1], i[2])
           THEN /\ i[2] \notin DOMAIN inbound_subscriptions_'[i[1]]
                /\ TraceGrewBy(i,
                     <<Event("HandleTermination", i[1], i[2],
                             FindInbound(i[1], i[2]).tenant_id, 0, 0,
                             "Rocketeer"),
                       Event("Unsubscribe", i[1], i[2],
                             FindInbound(i[1], i[2]).tenant_id, 0, 0,
                             reason)>>)
                /\ OthersUntouched({i})
           ELSE UNCHANGED rkVars]_vars

\* A subscription was terminated for the reason kInvalid, the other
\* subscription of its stream staying.
C19_Witness ==
  /\ ~HasInbound(1, 1)
  /\ HasInbound(1, 2)
  /\ Len(rk_trace[<<1, 1>>]) >= 3
  /\ rk_trace[<<1, 1>>][Len(rk_trace[<<1, 1>>])].ev = "Unsubscribe"
  /\ rk_trace[<<1, 1>>][Len(rk_trace[<<1, 1>>])].info = "kInvalid"
  /\ rk_trace[<<1, 1>>][Len(rk_trace[<<1, 1>>]) - 1].info = "Rocketeer"

\* C20: an Unsubscribe for an existing subscription invokes
\* HandleTermination with source Subscriber once for it and drops it; a
\* Goodbye on a stream does so for every subscription of the stream; the
\* subscriptions of the other streams are left as they were; an Unsubscribe
\* for an unknown subscription and a Goodbye for a stream that is not in
\* inbound_subscriptions_ change nothing.
C20_SubscriberTerminations ==
  [][/\ \A i \in InboundIDs :
          ReceiveUnsubscribe(i[1], i[2]) =>
            IF HasInbound(i[1], i[2])
              THEN /\ \/ i[1] \notin DOMAIN inbound_subscriptions_'
                      \/ i[2] \notin DOMAIN inbound_subscriptions_'[i[1]]
                   /\ TraceGrewBy(i,
                        <<Event("HandleTermination", i[1], i[2],
                                FindInbound(i[1], i[2]).tenant_id, 0, 0,
                                "Subscriber")>>)
                   /\ OthersUntouched({i})
              ELSE UNCHANGED rkVars
     /\ \A origin \in StreamIDs :
          ReceiveGoodbye(origin) =>
            IF origin \in DOMAIN inbound_subscriptions_
              THEN /\ origin \notin DOMAIN inbound_subscriptions_'
                   /\ \A i \in InboundIDs :
                        (i[1] = origin /\ HasInbound(i[1], i[2]))
                          => TraceGrewBy(i,
                               <<Event("HandleTermination", i[1], i[2],
                                       FindInbound(i[1], i[2]).tenant_id,
                                       0, 0, "Subscriber")>>)
                   /\ OthersUntouched(
                        {i \in InboundIDs :
                           i[1] = origin /\ HasInbound(i[1], i[2])})
              ELSE UNCHANGED rkVars]_vars

\* A subscription of stream 1 ended with one HandleTermination from the
\* Subscriber; the other subscription of the stream and the subscription of
\* stream 2 go on.
C20_Witness ==
  /\ ~HasInbound(1, 1)
  /\ HasInbound(1, 2)
  /\ HasInbound(2, 1)
  /\ Len(rk_trace[<<1, 1>>]) = 2
  /\ rk_trace[<<1, 1>>][2].ev = "HandleTermination"
  /\ rk_trace[<<1, 1>>][2].info = "Subscriber"
  /\ rk_trace[<<1, 2>>] # <<>>
  /\ rk_trace[<<2, 1>>] # <<>>

(***************************************************************************)
(* RocketeerServer: properties                                             *)
(***************************************************************************)
\* C21: a public Deliver, Advance or Terminate, on whatever thread, touches
\* no subscription and sends nothing; it returns true exactly when its one
\* command went onto the queue of worker inbound_id.worker_id, and false
\* exactly when that queue was full, nothing having changed then; a
\* subscription changes, and a message is sent, only in a step of the
\* worker that owns it, on that worker's thread.
C21_CallsOnlyEnqueue ==
  [][/\ rs_last'.op \in ServerOps =>
          /\ rocketeers_' = rocketeers_
          /\ ~rs_last'.sent
          /\ rs_last'.returned <=>
               Len(rs_queue[rs_last'.worker_id]) < CommandQueueSize
          /\ IF rs_last'.returned
               THEN \E seqno \in Seqnos :
                      rs_queue' =
                        [rs_queue EXCEPT ![rs_last'.worker_id] =
                           Append(@, ExecuteCommand(rs_last'.op,
                                                    rs_last'.worker_id,
                                                    seqno))]
               ELSE rs_queue' = rs_queue
     /\ \A w \in WorkerIDs :
          rocketeers_'[w] # rocketeers_[w] =>
            /\ rs_last'.op \in {"run", "Receive"}
            /\ rs_last'.thread = WorkerThread(w)
     /\ rs_last'.sent =>
          /\ rs_last'.op = "run"
          /\ rs_last'.thread = WorkerThread(rs_last'.worker_id)]_vars

\* A Deliver for a subscription of worker 0, called on the thread of worker
\* 1, returned false on a full queue.
C21_Witness ==
  /\ rs_last.op = "Deliver"
  /\ rs_last.thread = "worker1"
  /\ rs_last.worker_id = 0
  /\ ~rs_last.returned
  /\ rocketeers_[0].has
  /\ Len(rs_queue[0]) = CommandQueueSize

C23_HandlesDistinctAndOwned ==
  /\ \A i \in DOMAIN mt_returned :
       /\ mt_returned[i].handle # NullHandle
       /\ GetWorkerID(mt_returned[i].handle) = mt_returned[i].worker_id
       /\ \A j \in DOMAIN mt_returned :
            mt_returned[i].handle = mt_returned[j].handle => i = j
  /\ \A w \in WorkerIDs :
       /\ \A k \in DOMAIN subscriber_queues_[w] :
            \E i \in DOMAIN mt_returned :
              /\ mt_returned[i].handle = subscriber_queues_[w][k].handle
              /\ mt_returned[i].worker_id = w
       /\ \A h \in mt_subs[w] :
            \E i \in DOMAIN mt_returned :
              /\ mt_returned[i].handle = h
              /\ mt_returned[i].worker_id = w

\* Two Subscribe calls that overlapped returned handles bound to the two
\* workers, and an Unsubscribe is queued for one of them.
C23_Witness ==
  /\ Len(mt_returned) >= 2
  /\ \E i, j \in DOMAIN mt_returned :
       mt_returned[i].worker_id # mt_returned[j].worker_id
  /\ \E w \in WorkerIDs :
       \E k \in DOMAIN subscriber_queues_[w] :
         subscriber_queues_[w][k].op = "Unsubscribe"

\* C24: a Goodbye written to a stream or received on it closes the stream,
\* and every later Write on the closed stream is dropped without failure: the
\* process goes on, nothing is put on the socket and the call returns true.
C24_ClosedStreamDropsWrites ==
  [][ /\ ( /\ st_last'.op \in {"Write", "Receive"}
           /\ st_last'.was_open
           /\ st_last'.type = "mGoodbye" ) =>
           socket_event_'[st_last'.stream_id] = "closed"
      /\ (st_last'.op = "Write" /\ ~st_last'.was_open) =>
           /\ ~st_faulted'
           /\ st_last'.returned
           /\ send_queue_' = send_queue_
    ]_vars

\* A Write on a stream that a received Goodbye had closed dereferenced the
\* null socket_event_ and brought the process down.
C24_Witness ==
  /\ st_faulted
  /\ st_last.op = "Write"
  /\ ~st_last.was_open
  /\ \E i \in DOMAIN st_delivered[st_last.stream_id] :
       st_delivered[st_last.stream_id][i].type = "mGoodbye"

\* C25: SocketEvent::Close gives the receiver of every open stream of the
\* connection one Goodbye made locally, whose code is Graceful for a graceful
\* close and Error for an error close, and writes nothing to the socket; no
\* receiver is ever given a second one.
C25_CloseGivesEachStreamOneGoodbye ==
  [][ /\ (st_last'.op = "Close" /\ st_last'.was_open) =>
           /\ \A s \in StreamIDs :
                /\ socket_event_[s] = "open" =>
                     /\ st_delivered'[s] =
                          Append(st_delivered[s],
                                 [type |-> "mGoodbye",
                                  code |-> IF st_last'.type = "Graceful"
                                             THEN "Graceful" ELSE "Error",
                                  origin |-> "close"])
                     /\ socket_event_'[s] = "closed"
                /\ socket_event_[s] # "open" =>
                     st_delivered'[s] = st_delivered[s]
           /\ send_queue_' = send_queue_
      /\ (st_last'.op = "Close" /\ ~st_last'.was_open) =>
           UNCHANGED <<socket_event_, st_delivered, send_queue_>>
      /\ \A s \in StreamIDs :
           Cardinality({i \in DOMAIN st_delivered'[s] :
                          st_delivered'[s][i].origin = "close"}) <= 1
    ]_vars

\* The socket was closed on an error while both streams were open, and each
\* receiver was handed a Goodbye with code Error after a message of the
\* remote host.
C25_Witness ==
  /\ st_last.op = "Close"
  /\ st_last.was_open
  /\ st_last.type = "Error"
  /\ \A s \in StreamIDs :
       /\ Len(st_delivered[s]) = 2
       /\ st_delivered[s][2] =
            [type |-> "mGoodbye", code |-> "Error", origin |-> "close"]

RemovedPosition(sub_id) ==
  RemoveScan(vector_, sub_id,
             FindOptimalPosition(vector_, get_state_(sub_id)),
             FindOptimalPosition(vector_, get_state_(sub_id)))

\* The backward shift of the Remove of a stored ID.
RemoveShift(sub_id) ==
  BackwardShift(vector_, RemovedPosition(sub_id), RemovedPosition(sub_id))

\* x lies in the interval (a, b] of the positions of the vector, taken
\* cyclically: going up from a, x comes no later than b.
InCyclicInterval(a, x, b) ==
  /\ 0 < (x - a + Len(vector_)) % Len(vector_)
  /\ (x - a + Len(vector_)) % Len(vector_) <=
       (b - a + Len(vector_)) % Len(vector_)

\* C27 as stated: the backward shift of a Remove that found its entry stops
\* at the first entry whose optimal position is in the interval
\* (gap position, current position]: no slot is looked at after such an entry.
C27_WalkStopsAtKeptEntry ==
  [][ \A sub_id \in ref_ids \ ref_ids' :
        map_last' = "remove_hit" =>
          \A k \in DOMAIN RemoveShift(sub_id).walk :
            RemoveShift(sub_id).walk[k].decision = "continue" =>
              k = Len(RemoveShift(sub_id).walk)
    ]_vars

\* C27: the backward shift of a Remove that found its entry looks at the
\* slots that follow the removed one, one after another.  An entry whose
\* optimal position is not in the interval (gap position, current position],
\* taken cyclically, is moved into the gap, and its old slot is the gap from
\* then on; an entry whose optimal position is in the interval is left where
\* it is and the walk goes on; the walk stops at the first empty slot.
C27_WalkShiftsUntilEmptySlot ==
  [][ \A sub_id \in ref_ids \ ref_ids' :
        map_last' = "remove_hit" =>
          LET shifted == RemoveShift(sub_id).vector_
              walk == RemoveShift(sub_id).walk
          IN  \A k \in DOMAIN walk :
                /\ walk[k].current_position =
                     (RemovedPosition(sub_id) + k) % Len(vector_)
                /\ walk[k].position =
                     IF k = 1 THEN RemovedPosition(sub_id)
                     ELSE IF walk[k - 1].decision = "move"
                       THEN walk[k - 1].current_position
                     ELSE walk[k - 1].position
                /\ (walk[k].decision = "break") <=>
                     (vector_[walk[k].current_position + 1] =
                        kReservedSubscriptionID)
                /\ (walk[k].decision = "break") <=> (k = Len(walk))
                /\ walk[k].decision # "break" =>
                     /\ walk[k].x =
                          FindOptimalPosition(vector_,
                            get_state_(vector_[walk[k].current_position + 1]))
                     /\ (walk[k].decision = "continue") <=>
                          InCyclicInterval(walk[k].position, walk[k].x,
                                           walk[k].current_position)
                /\ walk[k].decision = "move" =>
                     shifted[walk[k].position + 1] =
                       vector_[walk[k].current_position + 1]
                /\ walk[k].decision = "continue" =>
                     shifted[walk[k].current_position + 1] =
                       vector_[walk[k].current_position + 1]
    ]_vars

\* A Remove found its entry, left an entry after it in place and moved a
\* later entry into the gap.
C27_Witness ==
  /\ map_last = "remove_hit"
  /\ moved_past_kept

\* The DeliverData and DeliverGap messages of a subscription's trace.
SentDeliveries(i) == SelectSeq(rk_trace[i], IsDelivery)

\* C28: on every inbound subscription the prev_seqno of each sent DeliverData
\* or DeliverGap is the seqno of the message sent just before it, and that
\* of the first is start - 1, or 0 when the Subscribe's start seqno is 0; so
\* the ranges (prev_seqno, seqno] of the sent messages follow one another
\* with no overlap and no hole, whatever Deliver and Advance calls were made
\* and dropped.
C28_SentRangesChain ==
  \A i \in InboundIDs :
    /\ rk_trace[i] # <<>> => rk_trace[i][1].ev = "HandleNewSubscription"
    /\ \A k \in DOMAIN SentDeliveries(i) :
         /\ SentDeliveries(i)[k].prev_seqno =
              IF k > 1 THEN SentDeliveries(i)[k - 1].seqno
              ELSE IF rk_trace[i][1].seqno = 0 THEN 0
              ELSE rk_trace[i][1].seqno - 1
         /\ SentDeliveries(i)[k].prev_seqno < SentDeliveries(i)[k].seqno

\* A subscription that started at seqno 1 sent data for (0, 1] and a gap for
\* (1, 2], and a call that did not advance was dropped.
C28_Witness ==
  /\ dropped_reordered > 0
  /\ \E i \in InboundIDs :
       /\ Len(rk_trace[i]) = 3
       /\ rk_trace[i][1].seqno = 1
       /\ rk_trace[i][2].ev = "DeliverData"
       /\ rk_trace[i][2].prev_seqno = 0
       /\ rk_trace[i][2].seqno = 1
       /\ rk_trace[i][3].ev = "DeliverGap"
       /\ rk_trace[i][3].prev_seqno = 1
       /\ rk_trace[i][3].seqno = 2

\* C29: a Deliver for a known subscription with expected seqno e is emitted
\* to the observer, e becoming its seqno + 1, when its seqno is e or when its
\* seqno is greater than e and its prev_seqno is e; a Deliver with a seqno
\* below e and every other Deliver is dropped: the observer is not notified
\* and e is unchanged.
C29_DeliverAgainstExpected ==
  [][ \A sub_id \in ClientSubIds, prev_seqno \in ClientSeqnos,
         seqno \in ClientSeqnos :
        ( /\ prev_seqno <= seqno
          /\ sub_id \in DOMAIN subscriptions_
          /\ ReceiveDeliver(sub_id, prev_seqno, seqno) ) =>
          IF \/ seqno = subscriptions_[sub_id].expected_seqno_
             \/ /\ seqno > subscriptions_[sub_id].expected_seqno_
                /\ prev_seqno = subscriptions_[sub_id].expected_seqno_
            THEN /\ sub_emitted'[sub_id] =
                      Append(sub_emitted[sub_id],
                             [prev_seqno |-> prev_seqno, seqno |-> seqno])
                 /\ subscriptions_'[sub_id].expected_seqno_ = seqno + 1
            ELSE /\ sub_emitted'[sub_id] = sub_emitted[sub_id]
                 /\ subscriptions_'[sub_id].expected_seqno_ =
                      subscriptions_[sub_id].expected_seqno_
    ]_vars

\* A subscription that started at seqno 1 was handed a message for (1, 2],
\* beyond its expected seqno and beginning at it, and later refused a message
\* that did not fit, for which it asks to be subscribed again.
C29_Witness ==
  \E sub_id \in ClientSubIds :
    /\ sub_id \in DOMAIN subscriptions_
    /\ sub_start[sub_id] = 1
    /\ sub_emitted[sub_id] = <<[prev_seqno |-> 1, seqno |-> 2]>>
    /\ subscriptions_[sub_id].expected_seqno_ = 3
    /\ sub_id \in pending_subscriptions_
    /\ sub_id \in DOMAIN sent_subscribe
    /\ goodbyes_seen = 0

\* The downstream subscriptions an upstream subscription serves.
ServedBy(upstream_id) ==
  {d \in DOMAIN tc_downstream : UpstreamOf(d) = upstream_id}

\* C30: terminating a downstream subscription of a collapsed topic, the one
\* whose ID is the upstream's included, leaves the upstream subscription
\* active while another downstream subscription is served by it, and every
\* record of the upstream still goes to each of those; the upstream
\* subscription is terminated exactly when its last downstream subscription
\* is.
C30_UpstreamOutlivesDownstreams ==
  [][ /\ \A sub_id \in TcSubIds :
           TcTerminateSubscription(sub_id) =>
             IF ServedBy(UpstreamOf(sub_id)) = {sub_id}
               THEN UpstreamOf(sub_id) \notin DOMAIN tc_upstream'
               ELSE /\ UpstreamOf(sub_id) \in DOMAIN tc_upstream'
                    /\ tc_upstream'[UpstreamOf(sub_id)].delivered =
                         tc_upstream[UpstreamOf(sub_id)].delivered
                    /\ \A d \in ServedBy(UpstreamOf(sub_id)) \ {sub_id} :
                         /\ d \in DOMAIN tc_downstream'
                         /\ d \in tc_upstream'[UpstreamOf(sub_id)].observers
      /\ \A upstream_id \in TcSubIds :
           TcDeliver(upstream_id) =>
             \A d \in ServedBy(upstream_id) :
               tc_downstream'[d].received =
                 Append(tc_downstream[d].received,
                        tc_upstream[upstream_id].delivered + 1)
      /\ \A upstream_id \in TcSubIds :
           upstream_id \in DOMAIN tc_upstream' <=>
             \E d \in DOMAIN tc_downstream' :
               upstream_id =
                 IF d \in DOMAIN downstream_to_upstream_'
                   THEN downstream_to_upstream_'[d] ELSE d
    ]_vars

\* The downstream subscription whose ID the upstream has was terminated; the
\* upstream goes on serving the other one, which has received records.
C30_Witness ==
  /\ 1 \in tc_used
  /\ 1 \notin DOMAIN tc_downstream
  /\ 2 \in DOMAIN tc_downstream
  /\ UpstreamOf(2) = 1
  /\ 1 \in DOMAIN tc_upstream
  /\ tc_upstream[1].observers = {2}
  /\ tc_downstream[2].received # <<>>

(***************************************************************************)
(* C31: Remove of an ID that is not stored                                 *)
(***************************************************************************)
\* The fields of the map that Remove can change.
MapFields == <<vector_, sub_count_low_, sub_count_high_, sub_count_>>

\* C31: Remove called for a sub_id that is not stored returns false and
\* leaves the map unchanged, in every reachable state, also in a map into
\* which nothing has ever been inserted.
C31_RemoveOfAbsentReturnsFalse ==
  [][\A sub_id \in SubIds \ StoredIds :
       (Remove(sub_id) \/ \E fault \in BOOLEAN : RemoveOnEmpty(sub_id, fault))
         => /\ map_last' = "remove_miss"
            /\ ~map_fault'
            /\ UNCHANGED MapFields]_vars

\* Remove on the map as constructed has ended the process.
C31_Witness == map_fault /\ vector_ = <<>> /\ ref_ids = {}

(***************************************************************************)
(* C32: Insert of an ID that is already stored                             *)
(***************************************************************************)
\* What Find and Remove can tell of a map: what Find returns for every key,
\* and the IDs that Remove would find.
FindView == [k \in Keys |-> Find(k)]

\* The fields a map value carries, in the order of MapFields.
FieldsOf(m) == <<m.vector_, m.sub_count_low_, m.sub_count_high_, m.sub_count_>>

\* C32 as stated: an Insert of a stored ID under its own namespace and topic
\* changes neither the stored IDs nor the count, and Find returns afterwards
\* what it returned before.
C32_DuplicateInsertIsNoOp ==
  [][(map_last' = "insert_duplicate") =>
       /\ StoredIds' = StoredIds
       /\ sub_count_' = sub_count_
       /\ FindView' = FindView]_vars

\* C32 amended: such an Insert leaves the stored IDs and the count as they
\* were and adds no second copy, but it runs the pending Rehash first: the
\* map after it is the map rebuilt by Rehash, so Find returns what it
\* returned before for every key with one stored ID and some ID stored under
\* the key otherwise.  In every later state the map holds the IDs inserted
\* and not removed by the other calls, counts them right, and Find returns
\* an ID stored under the key or a miss if there is none.
C32_DuplicateInsertOnlyRehashes ==
  /\ [][(map_last' = "insert_duplicate") =>
          /\ StoredIds' = StoredIds
          /\ sub_count_' = sub_count_
          /\ MapFields' = FieldsOf(Rehash(ThisMap))
          /\ ~NeedsRehash(ThisMap) => UNCHANGED MapFields
          /\ \A k \in Keys :
                Cardinality(IdsUnder(StoredIds, k)) <= 1 =>
                  FindView'[k] = FindView[k]]_vars
  /\ [](~map_fault =>
          /\ StoredIds = ref_ids
          /\ sub_count_ = Cardinality(ref_ids)
          /\ \A k \in Keys :
                IF IdsUnder(ref_ids, k) = {}
                  THEN Find(k) = Miss
                  ELSE /\ Find(k).sub_id \in IdsUnder(ref_ids, k)
                       /\ Find(k).state = k)

\* C32 witness: an Insert of a stored ID met a full table of MaxSubId IDs, two
\* of them under one key, and rebuilt it.
C32_Witness ==
  /\ map_last = "insert_duplicate"
  /\ sub_count_ = MaxSubId
  /\ Len(vector_) = RehashedSize(sub_count_)
  /\ ~key_unique

(***************************************************************************)
(* C33: the table right after a Rehash that rebuilds it                    *)
(***************************************************************************)
\* The IDs stored in a vector.
IdsIn(vec) == {vec[i] : i \in 1..Len(vec)} \ {kReservedSubscriptionID}

\* What holds of a map that Rehash has just rebuilt.
Rebuilt(m) ==
  /\ m.sub_count_low_ <= m.sub_count_
  /\ m.sub_count_ < m.sub_count_high_
  /\ m.sub_count_high_ < Len(m.vector_)
  /\ Len(m.vector_) >= kMinSize
  /\ \E i \in 1..Len(m.vector_) : m.vector_[i] = kReservedSubscriptionID

\* A map of `count` IDs and no vector yet, as Rehash sees the count.
CountOnly(count) ==
  [vector_ |-> <<>>, sub_count_low_ |-> 0, sub_count_high_ |-> 0,
   sub_count_ |-> count]

\* The watermarks and the size that Rehash computes for a count.
Watermarks(count) ==
  [Rehash(CountOnly(count)) EXCEPT !.sub_count_ = count]

\* C33: right after every Rehash that rebuilds the table the stored IDs and
\* their count are those from before, low <= count < high < size and
\* size >= 16, for the rebuild an Insert begins with, for the rebuild a
\* Remove ends with, and in the arithmetic for every count up to
\* MaxRehashCount; and every table keeps an empty slot, at which the probe
\* loops end.
C33_RebuiltTableWithinWatermarks ==
  /\ []((~map_fault /\ NeedsRehash(ThisMap)) =>
          /\ Rebuilt(Rehash(ThisMap))
          /\ IdsIn(Rehash(ThisMap).vector_) = StoredIds
          /\ Rehash(ThisMap).sub_count_ = sub_count_)
  /\ [][\A sub_id \in ref_ids \ ref_ids' :
          (/\ map_last' = "remove_hit"
           /\ NeedsRehash([ThisMap EXCEPT !.sub_count_ = sub_count_ - 1]))
            => /\ Rebuilt(ThisMap')
               /\ StoredIds' = StoredIds \ {sub_id}
               /\ sub_count_' = sub_count_ - 1]_vars
  /\ [](\A count \in 0..MaxRehashCount :
          /\ Watermarks(count).sub_count_low_ <= count
          /\ count < Watermarks(count).sub_count_high_
          /\ Watermarks(count).sub_count_high_ < Len(Watermarks(count).vector_)
          /\ Len(Watermarks(count).vector_) >= kMinSize)
  /\ [](vector_ # <<>> =>
          \E i \in 1..Len(vector_) : vector_[i] = kReservedSubscriptionID)

\* C33 witness: a Remove has just rebuilt a larger table into the smallest
\* one, with entries in it.
C33_Witness ==
  /\ map_last = "remove_hit"
  /\ rebuilt
  /\ Len(vector_) = kMinSize
  /\ ref_ids # {}

(***************************************************************************)
(* C34: redelivery by the storage gets every record and gap to the user    *)
(***************************************************************************)
\* What the user's callbacks are handed for an item of the log: on_record
\* for an intact record, on_gap for a gap, and on_gap with kDataLoss for a
\* record that fails to deserialize.
HandedFor(item) ==
  IF item.kind = "record" /\ ~item.corrupt
    THEN [kind |-> "record", type |-> "", from |-> item.from, to |-> item.to]
    ELSE [kind |-> "gap",
          type |-> IF item.kind = "record" THEN "kDataLoss" ELSE item.type,
          from |-> item.from, to |-> item.to]

HandedForAll == [i \in 1..Len(io_log) |-> HandedFor(io_log[i])]

\* The calls of the user's callbacks for the log so far.
HandedToUser == lt_forwarded[InOrderReader][InOrderLog]

\* C34: with a storage that delivers the log in order and redelivers what
\* its callback refused, a loop that keeps draining and forwards that do not
\* fail forever, the calls of the user's callbacks are at every moment the
\* first items of the log, each once and in order, and in the end all of
\* them.
C34_RedeliveredOnceInOrder ==
  /\ [](/\ Len(HandedToUser) <= Len(io_log)
        /\ HandedToUser = SubSeq(HandedForAll, 1, Len(HandedToUser)))
  /\ <>[](HandedToUser = HandedForAll)

\* C34 witness: callbacks returned false MaxRetries times, and all items of
\* a log of MaxLogItems items, a corrupt record and a gap among them, have
\* reached the user.
C34_Witness ==
  /\ Len(io_log) = MaxLogItems
  /\ io_retries = MaxRetries
  /\ io_pos = Len(io_log)
  /\ HandedToUser = HandedForAll
  /\ \E i \in 1..Len(io_log) : io_log[i].corrupt
  /\ \E i \in 1..Len(io_log) : io_log[i].kind = "gap"

(***************************************************************************)
(* C35: one HandleNewSubscription, at most one HandleTermination           *)
(***************************************************************************)
IsNewSubscription(e) == e.ev = "HandleNewSubscription"
IsTermination(e) == e.ev = "HandleTermination"

\* The subscription of the trace has been terminated.
Terminated(i) == \E k \in DOMAIN rk_trace[i] : IsTermination(rk_trace[i][k])

\* C35: the trace of an accepted inbound subscription begins with its one
\* HandleNewSubscription and holds at most one HandleTermination, whatever
\* Terminate, Unsubscribe and Goodbye come for it; the subscription is
\* stored exactly until then; with the HandleTermination comes at most the
\* Unsubscribe that Terminate sends, and once the terminating call is over
\* nothing is sent for the (stream, sub_id) and nothing is invoked until a
\* Subscribe for it is accepted, which begins a new trace.
C35_OneStartOneTermination ==
  /\ [](\A i \in InboundIDs :
          rk_trace[i] # <<>> =>
            /\ IsNewSubscription(rk_trace[i][1])
            /\ Len(SelectSeq(rk_trace[i], IsNewSubscription)) = 1
            /\ Len(SelectSeq(rk_trace[i], IsTermination)) <= 1
            /\ HasInbound(i[1], i[2]) <=> ~Terminated(i)
            /\ \A k \in DOMAIN rk_trace[i] :
                  IsTermination(rk_trace[i][k]) =>
                    \/ k = Len(rk_trace[i])
                    \/ /\ k + 1 = Len(rk_trace[i])
                       /\ rk_trace[i][k].info = "Rocketeer"
                       /\ rk_trace[i][k + 1].ev = "Unsubscribe")
  /\ [][\A i \in InboundIDs :
          Terminated(i) =>
            \/ rk_trace'[i] = rk_trace[i]
            \/ /\ Len(rk_trace'[i]) = 1
               /\ IsNewSubscription(rk_trace'[i][1])
               /\ i[1] \in DOMAIN inbound_subscriptions_'
               /\ i[2] \in DOMAIN inbound_subscriptions_'[i[1]]]_vars

\* C35 witness: a subscription was terminated by the Rocketeer, its
\* Unsubscribe was sent, and the other subscription of its stream goes on.
C35_Witness ==
  /\ ~HasInbound(1, 1)
  /\ Terminated(<<1, 1>>)
  /\ Len(rk_trace[<<1, 1>>]) = 3
  /\ rk_trace[<<1, 1>>][2].info = "Rocketeer"
  /\ rk_trace[<<1, 1>>][3].ev = "Unsubscribe"
  /\ HasInbound(1, 2)
  /\ ~Terminated(<<1, 2>>)

(***************************************************************************)
(* C36: a Subscribe for a subscription that exists                         *)
(***************************************************************************)
\* C36: a Subscribe received for a (stream, sub_id) that has an inbound
\* subscription is ignored: every subscription keeps its tenant and its
\* prev_seqno, nothing is invoked and nothing is sent.
C36_DuplicateSubscribeIgnored ==
  [][\A i \in InboundIDs, t \in TenantIDs, start \in Seqnos :
       (HasInbound(i[1], i[2]) /\ ReceiveSubscribe(i[1], i[2], t, start)) =>
         /\ inbound_subscriptions_' = inbound_subscriptions_
         /\ rk_trace' = rk_trace
         /\ dropped_reordered' = dropped_reordered]_vars

\* C36 witness: a duplicate Subscribe has been ignored, and a subscription
\* whose prev_seqno has moved on since its Subscribe is in place with the
\* one HandleNewSubscription of its trace.
C36_Witness ==
  /\ duplicates_ignored
  /\ \E i \in InboundIDs :
       /\ HasInbound(i[1], i[2])
       /\ Len(rk_trace[i]) >= 2
       /\ FindInbound(i[1], i[2]).prev_seqno = MaxSeqno
       /\ FindInbound(i[1], i[2]).prev_seqno >
            InitialPrevSeqno(rk_trace[i][1].seqno)

(***************************************************************************)
(* C37, C38: what a stream hands its receiver, and what its destructor     *)
(* writes                                                                  *)
(***************************************************************************)
\* A receiver is handed a received message exactly when its stream is open
\* and the receiver is set; a received goodbye closes an open stream; a
\* goodbye is the last message a receiver is handed; and a stream that is
\* not open, after a goodbye received or written, hands its receiver
\* nothing.
HandsUntilGoodbye ==
  /\ [][\A s \in StreamIDs, m \in RemoteMessages, fault \in BOOLEAN :
          OwnedReceive(s, m, fault) =>
            /\ st_delivered'[s] =
                 IF socket_event_[s] = "open" /\ receiver_[s]
                   THEN Append(st_delivered[s], m)
                   ELSE st_delivered[s]
            /\ (socket_event_[s] = "open" /\ m.type = "mGoodbye") =>
                 socket_event_'[s] = "closed"]_vars
  /\ [][\A s \in StreamIDs :
          socket_event_[s] # "open" => st_delivered'[s] = st_delivered[s]]_vars
  /\ [](\A s \in StreamIDs :
          \A k \in DOMAIN st_delivered[s] :
            st_delivered[s][k].type = "mGoodbye" => k = Len(st_delivered[s]))

\* C37: a stream hands a received goodbye to its receiver exactly once and
\* hands it no message that arrives after a goodbye was received or written
\* on the stream; and without a receiver every received message is dropped
\* without failure.
C37_GoodbyeHandedOnceOrDropped ==
  /\ HandsUntilGoodbye
  /\ [][\A s \in StreamIDs, m \in RemoteMessages, fault \in BOOLEAN :
          OwnedReceive(s, m, fault) => ~st_faulted']_vars

\* A goodbye received on an open stream without a receiver dereferenced the
\* null socket_event_ in the log line of the drop and brought the process
\* down.
C37_Witness ==
  /\ st_faulted
  /\ st_last.op = "Receive"
  /\ st_last.was_open
  /\ st_last.type = "mGoodbye"
  /\ ~receiver_[st_last.stream_id]
  /\ socket_event_[st_last.stream_id] = "closed"

\* The goodbyes on the socket under the ID of a stream.
GoodbyesWritten(s) ==
  {k \in DOMAIN send_queue_ :
     send_queue_[k].stream_id = s /\ send_queue_[k].type = "mGoodbye"}

\* C38: destroying an open stream puts exactly one goodbye on the socket,
\* with code Graceful and origin type Server on an inbound socket and Client
\* otherwise; destroying a closed stream puts nothing there; and the socket
\* never holds two goodbyes of one stream.
C38_DestructorWritesOneGoodbye ==
  /\ [][\A s \in StreamIDs :
          DestroyStream(s) =>
            send_queue_' =
              IF socket_event_[s] = "open"
                THEN Append(send_queue_,
                            [stream_id |-> s, type |-> "mGoodbye",
                             code |-> "Graceful",
                             origin_type |-> IF is_inbound_ THEN "Server"
                                             ELSE "Client"])
                ELSE send_queue_]_vars
  /\ [](\A s \in StreamIDs : Cardinality(GoodbyesWritten(s)) <= 1)

\* C38 witness: on an inbound socket one stream was destroyed open and its
\* goodbye names the server; the other had been closed by a goodbye its owner
\* wrote and was destroyed without a second one.
C38_Witness ==
  /\ is_inbound_
  /\ \A s \in StreamIDs : socket_event_[s] = "destroyed"
  /\ Len(send_queue_) = 2
  /\ \A s \in StreamIDs : Cardinality(GoodbyesWritten(s)) = 1
  /\ \E k \in DOMAIN send_queue_ :
       send_queue_[k] = SerializedOnStream(send_queue_[k].stream_id,
                                           "mGoodbye")
  /\ st_last.op = "Destroy"
  /\ ~st_last.was_open

\* C39: a MessageDeliver that DeSerialize accepts has seqno >= prev_seqno,
\* whatever 64-bit values the two varints on the wire hold.
C39_AcceptedSeqnoNotBelowPrev ==
  (dw_pc = "deserialized" /\ dw_out.status = "OK")
    => ~Less64(dw_out.msg.seqno_, dw_out.msg.seqno_prev_)

\* C39 witness: DeSerialize accepted a message whose seqno_prev is 2^63 and
\* whose difference brings the seqno to 2^64 - 1, the greatest sum that does
\* not wrap.
C39_Witness ==
  /\ dw_pc = "deserialized"
  /\ dw_out.status = "OK"
  /\ dw_out.msg.seqno_prev_ = [Zero64 EXCEPT ![VarintGroups] = 1]
  /\ dw_out.msg.seqno_ = [k \in 1..VarintGroups |-> GroupBase(k) - 1]

\* With the assertion compiled in, a wrapped sum ends the process, and what
\* DeSerialize returns OK for is in order.
AssertedDeliverInOrder ==
  [][DeliverDeSerialize(TRUE) =>
       (dw_out'.status = "OK"
          => ~Less64(dw_out'.msg.seqno_, dw_out'.msg.seqno_prev_))]_vars

\* The ping EventCallback hands to ProcessPing on a loop, and the stream it
\* arrived on.
ArrivedPing(loop) == MessagePing_DeSerialize(Head(ping_wire[loop]).serial)

ArrivedOn(loop) == Head(ping_wire[loop]).stream

\* The step queued one command on the loop, after those it held: a ping of
\* type Response with the cookie of the ping that arrived, for the stream it
\* arrived on.
AnsweredOnce(loop) ==
  /\ Len(ping_commands'[loop]) = Len(ping_commands[loop]) + 1
  /\ SubSeq(ping_commands'[loop], 1, Len(ping_commands[loop]))
       = ping_commands[loop]
  /\ LET sent == ping_commands'[loop][Len(ping_commands'[loop])] IN
       /\ sent.stream = ArrivedOn(loop)
       /\ MessagePing_DeSerialize(sent.serial).pingtype_
            = PingType("Response")
       /\ MessagePing_DeSerialize(sent.serial).cookie_
            = ArrivedPing(loop).cookie_
  /\ \A other \in Loops \ {loop} :
       ping_commands'[other] = ping_commands[other]

\* C40 as stated: ProcessPing answers every request with exactly one response
\* of the same cookie on the stream it came from, and answers no response.
C40_RequestAlwaysAnsweredOnce ==
  [][\A loop \in Loops :
       ProcessPing(loop) =>
         IF ArrivedPing(loop).pingtype_ = PingType("Request")
           THEN AnsweredOnce(loop)
           ELSE ping_commands' = ping_commands]_vars

\* C40, amended: ProcessPing answers a request with exactly one response of
\* the same cookie on the stream it came from when the loop's command queue
\* takes the response, and with none when SendResponse fails; it answers no
\* response; so the loops send no more responses than requests were sent.
C40_RequestAnsweredOnceWhenQueued ==
  /\ [][\A loop \in Loops :
          ProcessPing(loop) =>
            IF /\ ArrivedPing(loop).pingtype_ = PingType("Request")
               /\ PingSendCommandOk(loop)
              THEN AnsweredOnce(loop)
              ELSE ping_commands' = ping_commands]_vars
  /\ [](ping_responses <= ping_issued)

\* C40 witness: one request was sent, the peer answered it, and the loop
\* that sent it has taken the response and answered nothing.
C40_Witness ==
  /\ ping_last = PingStep("ProcessPing", "a", PingType("Response"), TRUE)
  /\ ping_issued = 1
  /\ ping_responses = 1
  /\ \A loop \in Loops : ping_commands[loop] = <<>> /\ ping_wire[loop] = <<>>

====
